---- MODULE Spec2Model ----
(***************************************************************************)
(* Model of stock-screener-backend/app.py: the quarterly-earnings scraper  *)
(* (get_earnings), the batch endpoint (get_multiple_stocks), the           *)
(* background NSE index load with the symbol resolver (load_nse_mapping,   *)
(* find_nse_symbol) and the results-calendar parser (get_upcoming_results).*)
(*                                                                         *)
(* Text is modelled as a sequence of one-character strings, so that        *)
(* strip, split, lower, substring tests and numeric parsing are computed   *)
(* on the characters as Python computes them.  The rupee sign is the       *)
(* single character written "INR".  Python's None is the record None, a    *)
(* float is PyFloat(m, d) (the decimal m / 10^d), an int is PyInt(n), a str *)
(* is PyStr(s), and the percentage sentinel 'N/A' is NA.                   *)
(***************************************************************************)
EXTENDS Integers, Sequences, FiniteSets, TLC

VARIABLES
    \* ---- get_earnings (one call, stepped per candidate URL) ----
    gePc,        \* "loop" | "returned" | "raised" | "fell_off"
    urlIdx,      \* 1-based index of the candidate URL the loop is at
    market_cap,  \* the local market_cap: Unbound, None or Str(..)
    response,    \* the response handled by the iteration that ended the call
    result,      \* the value returned (a report record, or None)
    geSymbol,    \* the symbol argument
    locals,      \* the series held in the locals when the report was built
    \* ---- get_multiple_stocks ----
    bPc,         \* "idle" | "loop" | "responded"
    symbols,     \* the request's symbols
    symIdx,      \* index of the symbol the loop is at
    results,     \* dict symbol -> report, as a function on a set of symbols
    errors,      \* dict symbol -> error text
    clock,       \* seconds elapsed in time.sleep
    calls,       \* per symbol processed: when its page requests were made, and its outcome
    batchResponse, \* the JSON response of the batch
    \* ---- load_nse_mapping / find_nse_symbol ----
    nse_mapping, \* the global dict, as a sequence of <<key, value>> in insertion order
    dataset,     \* the rows of EQUITY_L.csv the server holds
    loadPc,      \* "start" | "fetched" | "done" | "failed"
    loadLocal,   \* the loader's local `mapping`
    rPc,         \* resolver call: "idle" | "exact" | "known" | "fuzzy" | "returned" | "raised"
    rName,       \* company_name of the call
    rIter,       \* the dict iterator of the fuzzy loop: [pos, size]
    rSeen,       \* the set of index contents the call has read so far
    rRet,        \* the value returned
    \* ---- get_upcoming_results ----
    cPc,         \* "idle" | "lines" | "fallback" | "responded"
    lines,       \* the non-empty stripped lines of the table text
    lineIdx,     \* index of the line the loop is at
    lastParse,   \* the fields parsed from the last line handled
    cResults,    \* results: the rows collected so far
    fbRows,      \* the rows of the fallback table the loop of line 446 has still to handle
    cResponse,   \* the answer of the handler
    \* ---- the derived series of get_earnings on their own (lines 209-215) ----
    dPc,         \* "idle" | "start" | "done"
    dSales,      \* sales after the int coercion of line 205
    dQuarters,   \* quarters
    dQoQ,        \* sales_qoq
    dYoY         \* sales_yoy

geVars == <<gePc, urlIdx, market_cap, response, result, geSymbol, locals>>
bVars == <<bPc, symbols, symIdx, results, errors, clock, calls, batchResponse>>
rVars == <<nse_mapping, dataset, loadPc, loadLocal, rPc, rName, rIter, rSeen, rRet>>
cVars == <<cPc, lines, lineIdx, lastParse, cResults, fbRows, cResponse>>
dVars == <<dPc, dSales, dQuarters, dQoQ, dYoY>>
vars == <<geVars, bVars, rVars, cVars, dVars>>

----------------------------------------------------------------------------
(* Python values *)

None == [t |-> "none"]
Unbound == [t |-> "unbound"]
NA == [t |-> "N/A"]
\* a finite float: the double nearest to the decimal m / 10^d, where m is no
\* multiple of ten (d is negative for 1000.0, which is PyFloat(1, -3)) and
\* 0.0 is PyFloat(0, 0)
PyFloat(m, d) == [t |-> "float", m |-> m, d |-> d]
\* -0.0
PyNegZero == [t |-> "float", m |-> 0, d |-> 0, sign |-> "-"]
PyNan == [t |-> "nan"]
PyInf == [t |-> "inf"]
PyNegInf == [t |-> "-inf"]
PyInt(n) == [t |-> "int", v |-> n]
PyStr(s) == [t |-> "str", v |-> s]

----------------------------------------------------------------------------
(* Text helpers: str methods of Python on sequences of characters.         *)
(*                                                                         *)
(* A character is written as itself when it is printable ASCII other than  *)
(* the backquote, or one of \t \n \r \f, as "INR" when it is the rupee     *)
(* sign U+20B9, and otherwise as the letter U followed by its code point   *)
(* in hexadecimal: "U00C9" is U+00C9, "U000B" the vertical tab, "U00A0"    *)
(* the no-break space, "U0060" the backquote.  The tables below are those  *)
(* of the Unicode database CPython 3.11 is built with (Unicode 14.0).      *)

\* the characters c with c.isspace(), which are also those \s matches in a
\* str pattern
Whitespace ==
    {"\t", "\n", "U000B", "\f", "\r", "U001C", "U001D", "U001E", "U001F", " ", "U0085", "U00A0",
     "U1680", "U2000", "U2001", "U2002", "U2003", "U2004", "U2005", "U2006", "U2007", "U2008",
     "U2009", "U200A", "U2028", "U2029", "U202F", "U205F", "U3000"}

IsSpace(c) == c \in Whitespace

\* the decimal digits (category Nd): the characters \d matches in a str
\* pattern and float() reads as digits; DigitsByValue[v + 1] holds the digits
\* of value v of every script
DigitsByValue ==
    <<{"0", "U0660", "U06F0", "U07C0", "U0966", "U09E6", "U0A66", "U0AE6", "U0B66", "U0BE6",
       "U0C66", "U0CE6", "U0D66", "U0DE6", "U0E50", "U0ED0", "U0F20", "U1040", "U1090", "U17E0",
       "U1810", "U1946", "U19D0", "U1A80", "U1A90", "U1B50", "U1BB0", "U1C40", "U1C50", "UA620",
       "UA8D0", "UA900", "UA9D0", "UA9F0", "UAA50", "UABF0", "UFF10", "U104A0", "U10D30", "U11066",
       "U110F0", "U11136", "U111D0", "U112F0", "U11450", "U114D0", "U11650", "U116C0", "U11730",
       "U118E0", "U11950", "U11C50", "U11D50", "U11DA0", "U16A60", "U16AC0", "U16B50", "U1D7CE",
       "U1D7D8", "U1D7E2", "U1D7EC", "U1D7F6", "U1E140", "U1E2F0", "U1E950", "U1FBF0"},
      {"1", "U0661", "U06F1", "U07C1", "U0967", "U09E7", "U0A67", "U0AE7", "U0B67", "U0BE7",
       "U0C67", "U0CE7", "U0D67", "U0DE7", "U0E51", "U0ED1", "U0F21", "U1041", "U1091", "U17E1",
       "U1811", "U1947", "U19D1", "U1A81", "U1A91", "U1B51", "U1BB1", "U1C41", "U1C51", "UA621",
       "UA8D1", "UA901", "UA9D1", "UA9F1", "UAA51", "UABF1", "UFF11", "U104A1", "U10D31", "U11067",
       "U110F1", "U11137", "U111D1", "U112F1", "U11451", "U114D1", "U11651", "U116C1", "U11731",
       "U118E1", "U11951", "U11C51", "U11D51", "U11DA1", "U16A61", "U16AC1", "U16B51", "U1D7CF",
       "U1D7D9", "U1D7E3", "U1D7ED", "U1D7F7", "U1E141", "U1E2F1", "U1E951", "U1FBF1"},
      {"2", "U0662", "U06F2", "U07C2", "U0968", "U09E8", "U0A68", "U0AE8", "U0B68", "U0BE8",
       "U0C68", "U0CE8", "U0D68", "U0DE8", "U0E52", "U0ED2", "U0F22", "U1042", "U1092", "U17E2",
       "U1812", "U1948", "U19D2", "U1A82", "U1A92", "U1B52", "U1BB2", "U1C42", "U1C52", "UA622",
       "UA8D2", "UA902", "UA9D2", "UA9F2", "UAA52", "UABF2", "UFF12", "U104A2", "U10D32", "U11068",
       "U110F2", "U11138", "U111D2", "U112F2", "U11452", "U114D2", "U11652", "U116C2", "U11732",
       "U118E2", "U11952", "U11C52", "U11D52", "U11DA2", "U16A62", "U16AC2", "U16B52", "U1D7D0",
       "U1D7DA", "U1D7E4", "U1D7EE", "U1D7F8", "U1E142", "U1E2F2", "U1E952", "U1FBF2"},
      {"3", "U0663", "U06F3", "U07C3", "U0969", "U09E9", "U0A69", "U0AE9", "U0B69", "U0BE9",
       "U0C69", "U0CE9", "U0D69", "U0DE9", "U0E53", "U0ED3", "U0F23", "U1043", "U1093", "U17E3",
       "U1813", "U1949", "U19D3", "U1A83", "U1A93", "U1B53", "U1BB3", "U1C43", "U1C53", "UA623",
       "UA8D3", "UA903", "UA9D3", "UA9F3", "UAA53", "UABF3", "UFF13", "U104A3", "U10D33", "U11069",
       "U110F3", "U11139", "U111D3", "U112F3", "U11453", "U114D3", "U11653", "U116C3", "U11733",
       "U118E3", "U11953", "U11C53", "U11D53", "U11DA3", "U16A63", "U16AC3", "U16B53", "U1D7D1",
       "U1D7DB", "U1D7E5", "U1D7EF", "U1D7F9", "U1E143", "U1E2F3", "U1E953", "U1FBF3"},
      {"4", "U0664", "U06F4", "U07C4", "U096A", "U09EA", "U0A6A", "U0AEA", "U0B6A", "U0BEA",
       "U0C6A", "U0CEA", "U0D6A", "U0DEA", "U0E54", "U0ED4", "U0F24", "U1044", "U1094", "U17E4",
       "U1814", "U194A", "U19D4", "U1A84", "U1A94", "U1B54", "U1BB4", "U1C44", "U1C54", "UA624",
       "UA8D4", "UA904", "UA9D4", "UA9F4", "UAA54", "UABF4", "UFF14", "U104A4", "U10D34", "U1106A",
       "U110F4", "U1113A", "U111D4", "U112F4", "U11454", "U114D4", "U11654", "U116C4", "U11734",
       "U118E4", "U11954", "U11C54", "U11D54", "U11DA4", "U16A64", "U16AC4", "U16B54", "U1D7D2",
       "U1D7DC", "U1D7E6", "U1D7F0", "U1D7FA", "U1E144", "U1E2F4", "U1E954", "U1FBF4"},
      {"5", "U0665", "U06F5", "U07C5", "U096B", "U09EB", "U0A6B", "U0AEB", "U0B6B", "U0BEB",
       "U0C6B", "U0CEB", "U0D6B", "U0DEB", "U0E55", "U0ED5", "U0F25", "U1045", "U1095", "U17E5",
       "U1815", "U194B", "U19D5", "U1A85", "U1A95", "U1B55", "U1BB5", "U1C45", "U1C55", "UA625",
       "UA8D5", "UA905", "UA9D5", "UA9F5", "UAA55", "UABF5", "UFF15", "U104A5", "U10D35", "U1106B",
       "U110F5", "U1113B", "U111D5", "U112F5", "U11455", "U114D5", "U11655", "U116C5", "U11735",
       "U118E5", "U11955", "U11C55", "U11D55", "U11DA5", "U16A65", "U16AC5", "U16B55", "U1D7D3",
       "U1D7DD", "U1D7E7", "U1D7F1", "U1D7FB", "U1E145", "U1E2F5", "U1E955", "U1FBF5"},
      {"6", "U0666", "U06F6", "U07C6", "U096C", "U09EC", "U0A6C", "U0AEC", "U0B6C", "U0BEC",
       "U0C6C", "U0CEC", "U0D6C", "U0DEC", "U0E56", "U0ED6", "U0F26", "U1046", "U1096", "U17E6",
       "U1816", "U194C", "U19D6", "U1A86", "U1A96", "U1B56", "U1BB6", "U1C46", "U1C56", "UA626",
       "UA8D6", "UA906", "UA9D6", "UA9F6", "UAA56", "UABF6", "UFF16", "U104A6", "U10D36", "U1106C",
       "U110F6", "U1113C", "U111D6", "U112F6", "U11456", "U114D6", "U11656", "U116C6", "U11736",
       "U118E6", "U11956", "U11C56", "U11D56", "U11DA6", "U16A66", "U16AC6", "U16B56", "U1D7D4",
       "U1D7DE", "U1D7E8", "U1D7F2", "U1D7FC", "U1E146", "U1E2F6", "U1E956", "U1FBF6"},
      {"7", "U0667", "U06F7", "U07C7", "U096D", "U09ED", "U0A6D", "U0AED", "U0B6D", "U0BED",
       "U0C6D", "U0CED", "U0D6D", "U0DED", "U0E57", "U0ED7", "U0F27", "U1047", "U1097", "U17E7",
       "U1817", "U194D", "U19D7", "U1A87", "U1A97", "U1B57", "U1BB7", "U1C47", "U1C57", "UA627",
       "UA8D7", "UA907", "UA9D7", "UA9F7", "UAA57", "UABF7", "UFF17", "U104A7", "U10D37", "U1106D",
       "U110F7", "U1113D", "U111D7", "U112F7", "U11457", "U114D7", "U11657", "U116C7", "U11737",
       "U118E7", "U11957", "U11C57", "U11D57", "U11DA7", "U16A67", "U16AC7", "U16B57", "U1D7D5",
       "U1D7DF", "U1D7E9", "U1D7F3", "U1D7FD", "U1E147", "U1E2F7", "U1E957", "U1FBF7"},
      {"8", "U0668", "U06F8", "U07C8", "U096E", "U09EE", "U0A6E", "U0AEE", "U0B6E", "U0BEE",
       "U0C6E", "U0CEE", "U0D6E", "U0DEE", "U0E58", "U0ED8", "U0F28", "U1048", "U1098", "U17E8",
       "U1818", "U194E", "U19D8", "U1A88", "U1A98", "U1B58", "U1BB8", "U1C48", "U1C58", "UA628",
       "UA8D8", "UA908", "UA9D8", "UA9F8", "UAA58", "UABF8", "UFF18", "U104A8", "U10D38", "U1106E",
       "U110F8", "U1113E", "U111D8", "U112F8", "U11458", "U114D8", "U11658", "U116C8", "U11738",
       "U118E8", "U11958", "U11C58", "U11D58", "U11DA8", "U16A68", "U16AC8", "U16B58", "U1D7D6",
       "U1D7E0", "U1D7EA", "U1D7F4", "U1D7FE", "U1E148", "U1E2F8", "U1E958", "U1FBF8"},
      {"9", "U0669", "U06F9", "U07C9", "U096F", "U09EF", "U0A6F", "U0AEF", "U0B6F", "U0BEF",
       "U0C6F", "U0CEF", "U0D6F", "U0DEF", "U0E59", "U0ED9", "U0F29", "U1049", "U1099", "U17E9",
       "U1819", "U194F", "U19D9", "U1A89", "U1A99", "U1B59", "U1BB9", "U1C49", "U1C59", "UA629",
       "UA8D9", "UA909", "UA9D9", "UA9F9", "UAA59", "UABF9", "UFF19", "U104A9", "U10D39", "U1106F",
       "U110F9", "U1113F", "U111D9", "U112F9", "U11459", "U114D9", "U11659", "U116C9", "U11739",
       "U118E9", "U11959", "U11C59", "U11D59", "U11DA9", "U16A69", "U16AC9", "U16B59", "U1D7D7",
       "U1D7E1", "U1D7EB", "U1D7F5", "U1D7FF", "U1E149", "U1E2F9", "U1E959", "U1FBF9"}>>

Digit == UNION {DigitsByValue[v] : v \in 1..10}

DigitVal(c) == (CHOOSE v \in 1..10 : c \in DigitsByValue[v]) - 1

\* str.lower(): the characters whose lowercase is one other character (for the
\* capital sigma U+03A3, the form it takes when it does not end a word)
LowerTable ==
    [A |-> "a", B |-> "b", C |-> "c", D |-> "d", E |-> "e", F |-> "f", G |-> "g", H |-> "h",
     I |-> "i", J |-> "j", K |-> "k", L |-> "l", M |-> "m", N |-> "n", O |-> "o", P |-> "p",
     Q |-> "q", R |-> "r", S |-> "s", T |-> "t", U |-> "u", V |-> "v", W |-> "w", X |-> "x",
     Y |-> "y", Z |-> "z", U00C0 |-> "U00E0", U00C1 |-> "U00E1", U00C2 |-> "U00E2",
     U00C3 |-> "U00E3", U00C4 |-> "U00E4", U00C5 |-> "U00E5", U00C6 |-> "U00E6", U00C7 |-> "U00E7",
     U00C8 |-> "U00E8", U00C9 |-> "U00E9", U00CA |-> "U00EA", U00CB |-> "U00EB", U00CC |-> "U00EC",
     U00CD |-> "U00ED", U00CE |-> "U00EE", U00CF |-> "U00EF", U00D0 |-> "U00F0", U00D1 |-> "U00F1",
     U00D2 |-> "U00F2", U00D3 |-> "U00F3", U00D4 |-> "U00F4", U00D5 |-> "U00F5", U00D6 |-> "U00F6",
     U00D8 |-> "U00F8", U00D9 |-> "U00F9", U00DA |-> "U00FA", U00DB |-> "U00FB", U00DC |-> "U00FC",
     U00DD |-> "U00FD", U00DE |-> "U00FE", U0100 |-> "U0101", U0102 |-> "U0103", U0104 |-> "U0105",
     U0106 |-> "U0107", U0108 |-> "U0109", U010A |-> "U010B", U010C |-> "U010D", U010E |-> "U010F",
     U0110 |-> "U0111", U0112 |-> "U0113", U0114 |-> "U0115", U0116 |-> "U0117", U0118 |-> "U0119",
     U011A |-> "U011B", U011C |-> "U011D", U011E |-> "U011F", U0120 |-> "U0121", U0122 |-> "U0123",
     U0124 |-> "U0125", U0126 |-> "U0127", U0128 |-> "U0129", U012A |-> "U012B", U012C |-> "U012D",
     U012E |-> "U012F", U0132 |-> "U0133", U0134 |-> "U0135", U0136 |-> "U0137", U0139 |-> "U013A",
     U013B |-> "U013C", U013D |-> "U013E", U013F |-> "U0140", U0141 |-> "U0142", U0143 |-> "U0144",
     U0145 |-> "U0146", U0147 |-> "U0148", U014A |-> "U014B", U014C |-> "U014D", U014E |-> "U014F",
     U0150 |-> "U0151", U0152 |-> "U0153", U0154 |-> "U0155", U0156 |-> "U0157", U0158 |-> "U0159",
     U015A |-> "U015B", U015C |-> "U015D", U015E |-> "U015F", U0160 |-> "U0161", U0162 |-> "U0163",
     U0164 |-> "U0165", U0166 |-> "U0167", U0168 |-> "U0169", U016A |-> "U016B", U016C |-> "U016D",
     U016E |-> "U016F", U0170 |-> "U0171", U0172 |-> "U0173", U0174 |-> "U0175", U0176 |-> "U0177",
     U0178 |-> "U00FF", U0179 |-> "U017A", U017B |-> "U017C", U017D |-> "U017E", U0181 |-> "U0253",
     U0182 |-> "U0183", U0184 |-> "U0185", U0186 |-> "U0254", U0187 |-> "U0188", U0189 |-> "U0256",
     U018A |-> "U0257", U018B |-> "U018C", U018E |-> "U01DD", U018F |-> "U0259", U0190 |-> "U025B",
     U0191 |-> "U0192", U0193 |-> "U0260", U0194 |-> "U0263", U0196 |-> "U0269", U0197 |-> "U0268",
     U0198 |-> "U0199", U019C |-> "U026F", U019D |-> "U0272", U019F |-> "U0275", U01A0 |-> "U01A1",
     U01A2 |-> "U01A3", U01A4 |-> "U01A5", U01A6 |-> "U0280", U01A7 |-> "U01A8", U01A9 |-> "U0283",
     U01AC |-> "U01AD", U01AE |-> "U0288", U01AF |-> "U01B0", U01B1 |-> "U028A", U01B2 |-> "U028B",
     U01B3 |-> "U01B4", U01B5 |-> "U01B6", U01B7 |-> "U0292", U01B8 |-> "U01B9", U01BC |-> "U01BD",
     U01C4 |-> "U01C6", U01C5 |-> "U01C6", U01C7 |-> "U01C9", U01C8 |-> "U01C9", U01CA |-> "U01CC",
     U01CB |-> "U01CC", U01CD |-> "U01CE", U01CF |-> "U01D0", U01D1 |-> "U01D2", U01D3 |-> "U01D4",
     U01D5 |-> "U01D6", U01D7 |-> "U01D8", U01D9 |-> "U01DA", U01DB |-> "U01DC", U01DE |-> "U01DF",
     U01E0 |-> "U01E1", U01E2 |-> "U01E3", U01E4 |-> "U01E5", U01E6 |-> "U01E7", U01E8 |-> "U01E9",
     U01EA |-> "U01EB", U01EC |-> "U01ED", U01EE |-> "U01EF", U01F1 |-> "U01F3", U01F2 |-> "U01F3",
     U01F4 |-> "U01F5", U01F6 |-> "U0195", U01F7 |-> "U01BF", U01F8 |-> "U01F9", U01FA |-> "U01FB",
     U01FC |-> "U01FD", U01FE |-> "U01FF", U0200 |-> "U0201", U0202 |-> "U0203", U0204 |-> "U0205",
     U0206 |-> "U0207", U0208 |-> "U0209", U020A |-> "U020B", U020C |-> "U020D", U020E |-> "U020F",
     U0210 |-> "U0211", U0212 |-> "U0213", U0214 |-> "U0215", U0216 |-> "U0217", U0218 |-> "U0219",
     U021A |-> "U021B", U021C |-> "U021D", U021E |-> "U021F", U0220 |-> "U019E", U0222 |-> "U0223",
     U0224 |-> "U0225", U0226 |-> "U0227", U0228 |-> "U0229", U022A |-> "U022B", U022C |-> "U022D",
     U022E |-> "U022F", U0230 |-> "U0231", U0232 |-> "U0233", U023A |-> "U2C65", U023B |-> "U023C",
     U023D |-> "U019A", U023E |-> "U2C66", U0241 |-> "U0242", U0243 |-> "U0180", U0244 |-> "U0289",
     U0245 |-> "U028C", U0246 |-> "U0247", U0248 |-> "U0249", U024A |-> "U024B", U024C |-> "U024D",
     U024E |-> "U024F", U0370 |-> "U0371", U0372 |-> "U0373", U0376 |-> "U0377", U037F |-> "U03F3",
     U0386 |-> "U03AC", U0388 |-> "U03AD", U0389 |-> "U03AE", U038A |-> "U03AF", U038C |-> "U03CC",
     U038E |-> "U03CD", U038F |-> "U03CE", U0391 |-> "U03B1", U0392 |-> "U03B2", U0393 |-> "U03B3",
     U0394 |-> "U03B4", U0395 |-> "U03B5", U0396 |-> "U03B6", U0397 |-> "U03B7", U0398 |-> "U03B8",
     U0399 |-> "U03B9", U039A |-> "U03BA", U039B |-> "U03BB", U039C |-> "U03BC", U039D |-> "U03BD",
     U039E |-> "U03BE", U039F |-> "U03BF", U03A0 |-> "U03C0", U03A1 |-> "U03C1", U03A3 |-> "U03C3",
     U03A4 |-> "U03C4", U03A5 |-> "U03C5", U03A6 |-> "U03C6", U03A7 |-> "U03C7", U03A8 |-> "U03C8",
     U03A9 |-> "U03C9", U03AA |-> "U03CA", U03AB |-> "U03CB", U03CF |-> "U03D7", U03D8 |-> "U03D9",
     U03DA |-> "U03DB", U03DC |-> "U03DD", U03DE |-> "U03DF", U03E0 |-> "U03E1", U03E2 |-> "U03E3",
     U03E4 |-> "U03E5", U03E6 |-> "U03E7", U03E8 |-> "U03E9", U03EA |-> "U03EB", U03EC |-> "U03ED",
     U03EE |-> "U03EF", U03F4 |-> "U03B8", U03F7 |-> "U03F8", U03F9 |-> "U03F2", U03FA |-> "U03FB",
     U03FD |-> "U037B", U03FE |-> "U037C", U03FF |-> "U037D", U0400 |-> "U0450", U0401 |-> "U0451",
     U0402 |-> "U0452", U0403 |-> "U0453", U0404 |-> "U0454", U0405 |-> "U0455", U0406 |-> "U0456",
     U0407 |-> "U0457", U0408 |-> "U0458", U0409 |-> "U0459", U040A |-> "U045A", U040B |-> "U045B",
     U040C |-> "U045C", U040D |-> "U045D", U040E |-> "U045E", U040F |-> "U045F", U0410 |-> "U0430",
     U0411 |-> "U0431", U0412 |-> "U0432", U0413 |-> "U0433", U0414 |-> "U0434", U0415 |-> "U0435",
     U0416 |-> "U0436", U0417 |-> "U0437", U0418 |-> "U0438", U0419 |-> "U0439", U041A |-> "U043A",
     U041B |-> "U043B", U041C |-> "U043C", U041D |-> "U043D", U041E |-> "U043E", U041F |-> "U043F",
     U0420 |-> "U0440", U0421 |-> "U0441", U0422 |-> "U0442", U0423 |-> "U0443", U0424 |-> "U0444",
     U0425 |-> "U0445", U0426 |-> "U0446", U0427 |-> "U0447", U0428 |-> "U0448", U0429 |-> "U0449",
     U042A |-> "U044A", U042B |-> "U044B", U042C |-> "U044C", U042D |-> "U044D", U042E |-> "U044E",
     U042F |-> "U044F", U0460 |-> "U0461", U0462 |-> "U0463", U0464 |-> "U0465", U0466 |-> "U0467",
     U0468 |-> "U0469", U046A |-> "U046B", U046C |-> "U046D", U046E |-> "U046F", U0470 |-> "U0471",
     U0472 |-> "U0473", U0474 |-> "U0475", U0476 |-> "U0477", U0478 |-> "U0479", U047A |-> "U047B",
     U047C |-> "U047D", U047E |-> "U047F", U0480 |-> "U0481", U048A |-> "U048B", U048C |-> "U048D",
     U048E |-> "U048F", U0490 |-> "U0491", U0492 |-> "U0493", U0494 |-> "U0495", U0496 |-> "U0497",
     U0498 |-> "U0499", U049A |-> "U049B", U049C |-> "U049D", U049E |-> "U049F", U04A0 |-> "U04A1",
     U04A2 |-> "U04A3", U04A4 |-> "U04A5", U04A6 |-> "U04A7", U04A8 |-> "U04A9", U04AA |-> "U04AB",
     U04AC |-> "U04AD", U04AE |-> "U04AF", U04B0 |-> "U04B1", U04B2 |-> "U04B3", U04B4 |-> "U04B5",
     U04B6 |-> "U04B7", U04B8 |-> "U04B9", U04BA |-> "U04BB", U04BC |-> "U04BD", U04BE |-> "U04BF",
     U04C0 |-> "U04CF", U04C1 |-> "U04C2", U04C3 |-> "U04C4", U04C5 |-> "U04C6", U04C7 |-> "U04C8",
     U04C9 |-> "U04CA", U04CB |-> "U04CC", U04CD |-> "U04CE", U04D0 |-> "U04D1", U04D2 |-> "U04D3",
     U04D4 |-> "U04D5", U04D6 |-> "U04D7", U04D8 |-> "U04D9", U04DA |-> "U04DB", U04DC |-> "U04DD",
     U04DE |-> "U04DF", U04E0 |-> "U04E1", U04E2 |-> "U04E3", U04E4 |-> "U04E5", U04E6 |-> "U04E7",
     U04E8 |-> "U04E9", U04EA |-> "U04EB", U04EC |-> "U04ED", U04EE |-> "U04EF", U04F0 |-> "U04F1",
     U04F2 |-> "U04F3", U04F4 |-> "U04F5", U04F6 |-> "U04F7", U04F8 |-> "U04F9", U04FA |-> "U04FB",
     U04FC |-> "U04FD", U04FE |-> "U04FF", U0500 |-> "U0501", U0502 |-> "U0503", U0504 |-> "U0505",
     U0506 |-> "U0507", U0508 |-> "U0509", U050A |-> "U050B", U050C |-> "U050D", U050E |-> "U050F",
     U0510 |-> "U0511", U0512 |-> "U0513", U0514 |-> "U0515", U0516 |-> "U0517", U0518 |-> "U0519",
     U051A |-> "U051B", U051C |-> "U051D", U051E |-> "U051F", U0520 |-> "U0521", U0522 |-> "U0523",
     U0524 |-> "U0525", U0526 |-> "U0527", U0528 |-> "U0529", U052A |-> "U052B", U052C |-> "U052D",
     U052E |-> "U052F", U0531 |-> "U0561", U0532 |-> "U0562", U0533 |-> "U0563", U0534 |-> "U0564",
     U0535 |-> "U0565", U0536 |-> "U0566", U0537 |-> "U0567", U0538 |-> "U0568", U0539 |-> "U0569",
     U053A |-> "U056A", U053B |-> "U056B", U053C |-> "U056C", U053D |-> "U056D", U053E |-> "U056E",
     U053F |-> "U056F", U0540 |-> "U0570", U0541 |-> "U0571", U0542 |-> "U0572", U0543 |-> "U0573",
     U0544 |-> "U0574", U0545 |-> "U0575", U0546 |-> "U0576", U0547 |-> "U0577", U0548 |-> "U0578",
     U0549 |-> "U0579", U054A |-> "U057A", U054B |-> "U057B", U054C |-> "U057C", U054D |-> "U057D",
     U054E |-> "U057E", U054F |-> "U057F", U0550 |-> "U0580", U0551 |-> "U0581", U0552 |-> "U0582",
     U0553 |-> "U0583", U0554 |-> "U0584", U0555 |-> "U0585", U0556 |-> "U0586", U10A0 |-> "U2D00",
     U10A1 |-> "U2D01", U10A2 |-> "U2D02", U10A3 |-> "U2D03", U10A4 |-> "U2D04", U10A5 |-> "U2D05",
     U10A6 |-> "U2D06", U10A7 |-> "U2D07", U10A8 |-> "U2D08", U10A9 |-> "U2D09", U10AA |-> "U2D0A",
     U10AB |-> "U2D0B", U10AC |-> "U2D0C", U10AD |-> "U2D0D", U10AE |-> "U2D0E", U10AF |-> "U2D0F",
     U10B0 |-> "U2D10", U10B1 |-> "U2D11", U10B2 |-> "U2D12", U10B3 |-> "U2D13", U10B4 |-> "U2D14",
     U10B5 |-> "U2D15", U10B6 |-> "U2D16", U10B7 |-> "U2D17", U10B8 |-> "U2D18", U10B9 |-> "U2D19",
     U10BA |-> "U2D1A", U10BB |-> "U2D1B", U10BC |-> "U2D1C", U10BD |-> "U2D1D", U10BE |-> "U2D1E",
     U10BF |-> "U2D1F", U10C0 |-> "U2D20", U10C1 |-> "U2D21", U10C2 |-> "U2D22", U10C3 |-> "U2D23",
     U10C4 |-> "U2D24", U10C5 |-> "U2D25", U10C7 |-> "U2D27", U10CD |-> "U2D2D", U13A0 |-> "UAB70",
     U13A1 |-> "UAB71", U13A2 |-> "UAB72", U13A3 |-> "UAB73", U13A4 |-> "UAB74", U13A5 |-> "UAB75",
     U13A6 |-> "UAB76", U13A7 |-> "UAB77", U13A8 |-> "UAB78", U13A9 |-> "UAB79", U13AA |-> "UAB7A",
     U13AB |-> "UAB7B", U13AC |-> "UAB7C", U13AD |-> "UAB7D", U13AE |-> "UAB7E", U13AF |-> "UAB7F",
     U13B0 |-> "UAB80", U13B1 |-> "UAB81", U13B2 |-> "UAB82", U13B3 |-> "UAB83", U13B4 |-> "UAB84",
     U13B5 |-> "UAB85", U13B6 |-> "UAB86", U13B7 |-> "UAB87", U13B8 |-> "UAB88", U13B9 |-> "UAB89",
     U13BA |-> "UAB8A", U13BB |-> "UAB8B", U13BC |-> "UAB8C", U13BD |-> "UAB8D", U13BE |-> "UAB8E",
     U13BF |-> "UAB8F", U13C0 |-> "UAB90", U13C1 |-> "UAB91", U13C2 |-> "UAB92", U13C3 |-> "UAB93",
     U13C4 |-> "UAB94", U13C5 |-> "UAB95", U13C6 |-> "UAB96", U13C7 |-> "UAB97", U13C8 |-> "UAB98",
     U13C9 |-> "UAB99", U13CA |-> "UAB9A", U13CB |-> "UAB9B", U13CC |-> "UAB9C", U13CD |-> "UAB9D",
     U13CE |-> "UAB9E", U13CF |-> "UAB9F", U13D0 |-> "UABA0", U13D1 |-> "UABA1", U13D2 |-> "UABA2",
     U13D3 |-> "UABA3", U13D4 |-> "UABA4", U13D5 |-> "UABA5", U13D6 |-> "UABA6", U13D7 |-> "UABA7",
     U13D8 |-> "UABA8", U13D9 |-> "UABA9", U13DA |-> "UABAA", U13DB |-> "UABAB", U13DC |-> "UABAC",
     U13DD |-> "UABAD", U13DE |-> "UABAE", U13DF |-> "UABAF", U13E0 |-> "UABB0", U13E1 |-> "UABB1",
     U13E2 |-> "UABB2", U13E3 |-> "UABB3", U13E4 |-> "UABB4", U13E5 |-> "UABB5", U13E6 |-> "UABB6",
     U13E7 |-> "UABB7", U13E8 |-> "UABB8", U13E9 |-> "UABB9", U13EA |-> "UABBA", U13EB |-> "UABBB",
     U13EC |-> "UABBC", U13ED |-> "UABBD", U13EE |-> "UABBE", U13EF |-> "UABBF", U13F0 |-> "U13F8",
     U13F1 |-> "U13F9", U13F2 |-> "U13FA", U13F3 |-> "U13FB", U13F4 |-> "U13FC", U13F5 |-> "U13FD",
     U1C90 |-> "U10D0", U1C91 |-> "U10D1", U1C92 |-> "U10D2", U1C93 |-> "U10D3", U1C94 |-> "U10D4",
     U1C95 |-> "U10D5", U1C96 |-> "U10D6", U1C97 |-> "U10D7", U1C98 |-> "U10D8", U1C99 |-> "U10D9",
     U1C9A |-> "U10DA", U1C9B |-> "U10DB", U1C9C |-> "U10DC", U1C9D |-> "U10DD", U1C9E |-> "U10DE",
     U1C9F |-> "U10DF", U1CA0 |-> "U10E0", U1CA1 |-> "U10E1", U1CA2 |-> "U10E2", U1CA3 |-> "U10E3",
     U1CA4 |-> "U10E4", U1CA5 |-> "U10E5", U1CA6 |-> "U10E6", U1CA7 |-> "U10E7", U1CA8 |-> "U10E8",
     U1CA9 |-> "U10E9", U1CAA |-> "U10EA", U1CAB |-> "U10EB", U1CAC |-> "U10EC", U1CAD |-> "U10ED",
     U1CAE |-> "U10EE", U1CAF |-> "U10EF", U1CB0 |-> "U10F0", U1CB1 |-> "U10F1", U1CB2 |-> "U10F2",
     U1CB3 |-> "U10F3", U1CB4 |-> "U10F4", U1CB5 |-> "U10F5", U1CB6 |-> "U10F6", U1CB7 |-> "U10F7",
     U1CB8 |-> "U10F8", U1CB9 |-> "U10F9", U1CBA |-> "U10FA", U1CBD |-> "U10FD", U1CBE |-> "U10FE",
     U1CBF |-> "U10FF", U1E00 |-> "U1E01", U1E02 |-> "U1E03", U1E04 |-> "U1E05", U1E06 |-> "U1E07",
     U1E08 |-> "U1E09", U1E0A |-> "U1E0B", U1E0C |-> "U1E0D", U1E0E |-> "U1E0F", U1E10 |-> "U1E11",
     U1E12 |-> "U1E13", U1E14 |-> "U1E15", U1E16 |-> "U1E17", U1E18 |-> "U1E19", U1E1A |-> "U1E1B",
     U1E1C |-> "U1E1D", U1E1E |-> "U1E1F", U1E20 |-> "U1E21", U1E22 |-> "U1E23", U1E24 |-> "U1E25",
     U1E26 |-> "U1E27", U1E28 |-> "U1E29", U1E2A |-> "U1E2B", U1E2C |-> "U1E2D", U1E2E |-> "U1E2F",
     U1E30 |-> "U1E31", U1E32 |-> "U1E33", U1E34 |-> "U1E35", U1E36 |-> "U1E37", U1E38 |-> "U1E39",
     U1E3A |-> "U1E3B", U1E3C |-> "U1E3D", U1E3E |-> "U1E3F", U1E40 |-> "U1E41", U1E42 |-> "U1E43",
     U1E44 |-> "U1E45", U1E46 |-> "U1E47", U1E48 |-> "U1E49", U1E4A |-> "U1E4B", U1E4C |-> "U1E4D",
     U1E4E |-> "U1E4F", U1E50 |-> "U1E51", U1E52 |-> "U1E53", U1E54 |-> "U1E55", U1E56 |-> "U1E57",
     U1E58 |-> "U1E59", U1E5A |-> "U1E5B", U1E5C |-> "U1E5D", U1E5E |-> "U1E5F", U1E60 |-> "U1E61",
     U1E62 |-> "U1E63", U1E64 |-> "U1E65", U1E66 |-> "U1E67", U1E68 |-> "U1E69", U1E6A |-> "U1E6B",
     U1E6C |-> "U1E6D", U1E6E |-> "U1E6F", U1E70 |-> "U1E71", U1E72 |-> "U1E73", U1E74 |-> "U1E75",
     U1E76 |-> "U1E77", U1E78 |-> "U1E79", U1E7A |-> "U1E7B", U1E7C |-> "U1E7D", U1E7E |-> "U1E7F",
     U1E80 |-> "U1E81", U1E82 |-> "U1E83", U1E84 |-> "U1E85", U1E86 |-> "U1E87", U1E88 |-> "U1E89",
     U1E8A |-> "U1E8B", U1E8C |-> "U1E8D", U1E8E |-> "U1E8F", U1E90 |-> "U1E91", U1E92 |-> "U1E93",
     U1E94 |-> "U1E95", U1E9E |-> "U00DF", U1EA0 |-> "U1EA1", U1EA2 |-> "U1EA3", U1EA4 |-> "U1EA5",
     U1EA6 |-> "U1EA7", U1EA8 |-> "U1EA9", U1EAA |-> "U1EAB", U1EAC |-> "U1EAD", U1EAE |-> "U1EAF",
     U1EB0 |-> "U1EB1", U1EB2 |-> "U1EB3", U1EB4 |-> "U1EB5", U1EB6 |-> "U1EB7", U1EB8 |-> "U1EB9",
     U1EBA |-> "U1EBB", U1EBC |-> "U1EBD", U1EBE |-> "U1EBF", U1EC0 |-> "U1EC1", U1EC2 |-> "U1EC3",
     U1EC4 |-> "U1EC5", U1EC6 |-> "U1EC7", U1EC8 |-> "U1EC9", U1ECA |-> "U1ECB", U1ECC |-> "U1ECD",
     U1ECE |-> "U1ECF", U1ED0 |-> "U1ED1", U1ED2 |-> "U1ED3", U1ED4 |-> "U1ED5", U1ED6 |-> "U1ED7",
     U1ED8 |-> "U1ED9", U1EDA |-> "U1EDB", U1EDC |-> "U1EDD", U1EDE |-> "U1EDF", U1EE0 |-> "U1EE1",
     U1EE2 |-> "U1EE3", U1EE4 |-> "U1EE5", U1EE6 |-> "U1EE7", U1EE8 |-> "U1EE9", U1EEA |-> "U1EEB",
     U1EEC |-> "U1EED", U1EEE |-> "U1EEF", U1EF0 |-> "U1EF1", U1EF2 |-> "U1EF3", U1EF4 |-> "U1EF5",
     U1EF6 |-> "U1EF7", U1EF8 |-> "U1EF9", U1EFA |-> "U1EFB", U1EFC |-> "U1EFD", U1EFE |-> "U1EFF",
     U1F08 |-> "U1F00", U1F09 |-> "U1F01", U1F0A |-> "U1F02", U1F0B |-> "U1F03", U1F0C |-> "U1F04",
     U1F0D |-> "U1F05", U1F0E |-> "U1F06", U1F0F |-> "U1F07", U1F18 |-> "U1F10", U1F19 |-> "U1F11",
     U1F1A |-> "U1F12", U1F1B |-> "U1F13", U1F1C |-> "U1F14", U1F1D |-> "U1F15", U1F28 |-> "U1F20",
     U1F29 |-> "U1F21", U1F2A |-> "U1F22", U1F2B |-> "U1F23", U1F2C |-> "U1F24", U1F2D |-> "U1F25",
     U1F2E |-> "U1F26", U1F2F |-> "U1F27", U1F38 |-> "U1F30", U1F39 |-> "U1F31", U1F3A |-> "U1F32",
     U1F3B |-> "U1F33", U1F3C |-> "U1F34", U1F3D |-> "U1F35", U1F3E |-> "U1F36", U1F3F |-> "U1F37",
     U1F48 |-> "U1F40", U1F49 |-> "U1F41", U1F4A |-> "U1F42", U1F4B |-> "U1F43", U1F4C |-> "U1F44",
     U1F4D |-> "U1F45", U1F59 |-> "U1F51", U1F5B |-> "U1F53", U1F5D |-> "U1F55", U1F5F |-> "U1F57",
     U1F68 |-> "U1F60", U1F69 |-> "U1F61", U1F6A |-> "U1F62", U1F6B |-> "U1F63", U1F6C |-> "U1F64",
     U1F6D |-> "U1F65", U1F6E |-> "U1F66", U1F6F |-> "U1F67", U1F88 |-> "U1F80", U1F89 |-> "U1F81",
     U1F8A |-> "U1F82", U1F8B |-> "U1F83", U1F8C |-> "U1F84", U1F8D |-> "U1F85", U1F8E |-> "U1F86",
     U1F8F |-> "U1F87", U1F98 |-> "U1F90", U1F99 |-> "U1F91", U1F9A |-> "U1F92", U1F9B |-> "U1F93",
     U1F9C |-> "U1F94", U1F9D |-> "U1F95", U1F9E |-> "U1F96", U1F9F |-> "U1F97", U1FA8 |-> "U1FA0",
     U1FA9 |-> "U1FA1", U1FAA |-> "U1FA2", U1FAB |-> "U1FA3", U1FAC |-> "U1FA4", U1FAD |-> "U1FA5",
     U1FAE |-> "U1FA6", U1FAF |-> "U1FA7", U1FB8 |-> "U1FB0", U1FB9 |-> "U1FB1", U1FBA |-> "U1F70",
     U1FBB |-> "U1F71", U1FBC |-> "U1FB3", U1FC8 |-> "U1F72", U1FC9 |-> "U1F73", U1FCA |-> "U1F74",
     U1FCB |-> "U1F75", U1FCC |-> "U1FC3", U1FD8 |-> "U1FD0", U1FD9 |-> "U1FD1", U1FDA |-> "U1F76",
     U1FDB |-> "U1F77", U1FE8 |-> "U1FE0", U1FE9 |-> "U1FE1", U1FEA |-> "U1F7A", U1FEB |-> "U1F7B",
     U1FEC |-> "U1FE5", U1FF8 |-> "U1F78", U1FF9 |-> "U1F79", U1FFA |-> "U1F7C", U1FFB |-> "U1F7D",
     U1FFC |-> "U1FF3", U2126 |-> "U03C9", U212A |-> "k", U212B |-> "U00E5", U2132 |-> "U214E",
     U2160 |-> "U2170", U2161 |-> "U2171", U2162 |-> "U2172", U2163 |-> "U2173", U2164 |-> "U2174",
     U2165 |-> "U2175", U2166 |-> "U2176", U2167 |-> "U2177", U2168 |-> "U2178", U2169 |-> "U2179",
     U216A |-> "U217A", U216B |-> "U217B", U216C |-> "U217C", U216D |-> "U217D", U216E |-> "U217E",
     U216F |-> "U217F", U2183 |-> "U2184", U24B6 |-> "U24D0", U24B7 |-> "U24D1", U24B8 |-> "U24D2",
     U24B9 |-> "U24D3", U24BA |-> "U24D4", U24BB |-> "U24D5", U24BC |-> "U24D6", U24BD |-> "U24D7",
     U24BE |-> "U24D8", U24BF |-> "U24D9", U24C0 |-> "U24DA", U24C1 |-> "U24DB", U24C2 |-> "U24DC",
     U24C3 |-> "U24DD", U24C4 |-> "U24DE", U24C5 |-> "U24DF", U24C6 |-> "U24E0", U24C7 |-> "U24E1",
     U24C8 |-> "U24E2", U24C9 |-> "U24E3", U24CA |-> "U24E4", U24CB |-> "U24E5", U24CC |-> "U24E6",
     U24CD |-> "U24E7", U24CE |-> "U24E8", U24CF |-> "U24E9", U2C00 |-> "U2C30", U2C01 |-> "U2C31",
     U2C02 |-> "U2C32", U2C03 |-> "U2C33", U2C04 |-> "U2C34", U2C05 |-> "U2C35", U2C06 |-> "U2C36",
     U2C07 |-> "U2C37", U2C08 |-> "U2C38", U2C09 |-> "U2C39", U2C0A |-> "U2C3A", U2C0B |-> "U2C3B",
     U2C0C |-> "U2C3C", U2C0D |-> "U2C3D", U2C0E |-> "U2C3E", U2C0F |-> "U2C3F", U2C10 |-> "U2C40",
     U2C11 |-> "U2C41", U2C12 |-> "U2C42", U2C13 |-> "U2C43", U2C14 |-> "U2C44", U2C15 |-> "U2C45",
     U2C16 |-> "U2C46", U2C17 |-> "U2C47", U2C18 |-> "U2C48", U2C19 |-> "U2C49", U2C1A |-> "U2C4A",
     U2C1B |-> "U2C4B", U2C1C |-> "U2C4C", U2C1D |-> "U2C4D", U2C1E |-> "U2C4E", U2C1F |-> "U2C4F",
     U2C20 |-> "U2C50", U2C21 |-> "U2C51", U2C22 |-> "U2C52", U2C23 |-> "U2C53", U2C24 |-> "U2C54",
     U2C25 |-> "U2C55", U2C26 |-> "U2C56", U2C27 |-> "U2C57", U2C28 |-> "U2C58", U2C29 |-> "U2C59",
     U2C2A |-> "U2C5A", U2C2B |-> "U2C5B", U2C2C |-> "U2C5C", U2C2D |-> "U2C5D", U2C2E |-> "U2C5E",
     U2C2F |-> "U2C5F", U2C60 |-> "U2C61", U2C62 |-> "U026B", U2C63 |-> "U1D7D", U2C64 |-> "U027D",
     U2C67 |-> "U2C68", U2C69 |-> "U2C6A", U2C6B |-> "U2C6C", U2C6D |-> "U0251", U2C6E |-> "U0271",
     U2C6F |-> "U0250", U2C70 |-> "U0252", U2C72 |-> "U2C73", U2C75 |-> "U2C76", U2C7E |-> "U023F",
     U2C7F |-> "U0240", U2C80 |-> "U2C81", U2C82 |-> "U2C83", U2C84 |-> "U2C85", U2C86 |-> "U2C87",
     U2C88 |-> "U2C89", U2C8A |-> "U2C8B", U2C8C |-> "U2C8D", U2C8E |-> "U2C8F", U2C90 |-> "U2C91",
     U2C92 |-> "U2C93", U2C94 |-> "U2C95", U2C96 |-> "U2C97", U2C98 |-> "U2C99", U2C9A |-> "U2C9B",
     U2C9C |-> "U2C9D", U2C9E |-> "U2C9F", U2CA0 |-> "U2CA1", U2CA2 |-> "U2CA3", U2CA4 |-> "U2CA5",
     U2CA6 |-> "U2CA7", U2CA8 |-> "U2CA9", U2CAA |-> "U2CAB", U2CAC |-> "U2CAD", U2CAE |-> "U2CAF",
     U2CB0 |-> "U2CB1", U2CB2 |-> "U2CB3", U2CB4 |-> "U2CB5", U2CB6 |-> "U2CB7", U2CB8 |-> "U2CB9",
     U2CBA |-> "U2CBB", U2CBC |-> "U2CBD", U2CBE |-> "U2CBF", U2CC0 |-> "U2CC1", U2CC2 |-> "U2CC3",
     U2CC4 |-> "U2CC5", U2CC6 |-> "U2CC7", U2CC8 |-> "U2CC9", U2CCA |-> "U2CCB", U2CCC |-> "U2CCD",
     U2CCE |-> "U2CCF", U2CD0 |-> "U2CD1", U2CD2 |-> "U2CD3", U2CD4 |-> "U2CD5", U2CD6 |-> "U2CD7",
     U2CD8 |-> "U2CD9", U2CDA |-> "U2CDB", U2CDC |-> "U2CDD", U2CDE |-> "U2CDF", U2CE0 |-> "U2CE1",
     U2CE2 |-> "U2CE3", U2CEB |-> "U2CEC", U2CED |-> "U2CEE", U2CF2 |-> "U2CF3", UA640 |-> "UA641",
     UA642 |-> "UA643", UA644 |-> "UA645", UA646 |-> "UA647", UA648 |-> "UA649", UA64A |-> "UA64B",
     UA64C |-> "UA64D", UA64E |-> "UA64F", UA650 |-> "UA651", UA652 |-> "UA653", UA654 |-> "UA655",
     UA656 |-> "UA657", UA658 |-> "UA659", UA65A |-> "UA65B", UA65C |-> "UA65D", UA65E |-> "UA65F",
     UA660 |-> "UA661", UA662 |-> "UA663", UA664 |-> "UA665", UA666 |-> "UA667", UA668 |-> "UA669",
     UA66A |-> "UA66B", UA66C |-> "UA66D", UA680 |-> "UA681", UA682 |-> "UA683", UA684 |-> "UA685",
     UA686 |-> "UA687", UA688 |-> "UA689", UA68A |-> "UA68B", UA68C |-> "UA68D", UA68E |-> "UA68F",
     UA690 |-> "UA691", UA692 |-> "UA693", UA694 |-> "UA695", UA696 |-> "UA697", UA698 |-> "UA699",
     UA69A |-> "UA69B", UA722 |-> "UA723", UA724 |-> "UA725", UA726 |-> "UA727", UA728 |-> "UA729",
     UA72A |-> "UA72B", UA72C |-> "UA72D", UA72E |-> "UA72F", UA732 |-> "UA733", UA734 |-> "UA735",
     UA736 |-> "UA737", UA738 |-> "UA739", UA73A |-> "UA73B", UA73C |-> "UA73D", UA73E |-> "UA73F",
     UA740 |-> "UA741", UA742 |-> "UA743", UA744 |-> "UA745", UA746 |-> "UA747", UA748 |-> "UA749",
     UA74A |-> "UA74B", UA74C |-> "UA74D", UA74E |-> "UA74F", UA750 |-> "UA751", UA752 |-> "UA753",
     UA754 |-> "UA755", UA756 |-> "UA757", UA758 |-> "UA759", UA75A |-> "UA75B", UA75C |-> "UA75D",
     UA75E |-> "UA75F", UA760 |-> "UA761", UA762 |-> "UA763", UA764 |-> "UA765", UA766 |-> "UA767",
     UA768 |-> "UA769", UA76A |-> "UA76B", UA76C |-> "UA76D", UA76E |-> "UA76F", UA779 |-> "UA77A",
     UA77B |-> "UA77C", UA77D |-> "U1D79", UA77E |-> "UA77F", UA780 |-> "UA781", UA782 |-> "UA783",
     UA784 |-> "UA785", UA786 |-> "UA787", UA78B |-> "UA78C", UA78D |-> "U0265", UA790 |-> "UA791",
     UA792 |-> "UA793", UA796 |-> "UA797", UA798 |-> "UA799", UA79A |-> "UA79B", UA79C |-> "UA79D",
     UA79E |-> "UA79F", UA7A0 |-> "UA7A1", UA7A2 |-> "UA7A3", UA7A4 |-> "UA7A5", UA7A6 |-> "UA7A7",
     UA7A8 |-> "UA7A9", UA7AA |-> "U0266", UA7AB |-> "U025C", UA7AC |-> "U0261", UA7AD |-> "U026C",
     UA7AE |-> "U026A", UA7B0 |-> "U029E", UA7B1 |-> "U0287", UA7B2 |-> "U029D", UA7B3 |-> "UAB53",
     UA7B4 |-> "UA7B5", UA7B6 |-> "UA7B7", UA7B8 |-> "UA7B9", UA7BA |-> "UA7BB", UA7BC |-> "UA7BD",
     UA7BE |-> "UA7BF", UA7C0 |-> "UA7C1", UA7C2 |-> "UA7C3", UA7C4 |-> "UA794", UA7C5 |-> "U0282",
     UA7C6 |-> "U1D8E", UA7C7 |-> "UA7C8", UA7C9 |-> "UA7CA", UA7D0 |-> "UA7D1", UA7D6 |-> "UA7D7",
     UA7D8 |-> "UA7D9", UA7F5 |-> "UA7F6", UFF21 |-> "UFF41", UFF22 |-> "UFF42", UFF23 |-> "UFF43",
     UFF24 |-> "UFF44", UFF25 |-> "UFF45", UFF26 |-> "UFF46", UFF27 |-> "UFF47", UFF28 |-> "UFF48",
     UFF29 |-> "UFF49", UFF2A |-> "UFF4A", UFF2B |-> "UFF4B", UFF2C |-> "UFF4C", UFF2D |-> "UFF4D",
     UFF2E |-> "UFF4E", UFF2F |-> "UFF4F", UFF30 |-> "UFF50", UFF31 |-> "UFF51", UFF32 |-> "UFF52",
     UFF33 |-> "UFF53", UFF34 |-> "UFF54", UFF35 |-> "UFF55", UFF36 |-> "UFF56", UFF37 |-> "UFF57",
     UFF38 |-> "UFF58", UFF39 |-> "UFF59", UFF3A |-> "UFF5A", U10400 |-> "U10428",
     U10401 |-> "U10429", U10402 |-> "U1042A", U10403 |-> "U1042B", U10404 |-> "U1042C",
     U10405 |-> "U1042D", U10406 |-> "U1042E", U10407 |-> "U1042F", U10408 |-> "U10430",
     U10409 |-> "U10431", U1040A |-> "U10432", U1040B |-> "U10433", U1040C |-> "U10434",
     U1040D |-> "U10435", U1040E |-> "U10436", U1040F |-> "U10437", U10410 |-> "U10438",
     U10411 |-> "U10439", U10412 |-> "U1043A", U10413 |-> "U1043B", U10414 |-> "U1043C",
     U10415 |-> "U1043D", U10416 |-> "U1043E", U10417 |-> "U1043F", U10418 |-> "U10440",
     U10419 |-> "U10441", U1041A |-> "U10442", U1041B |-> "U10443", U1041C |-> "U10444",
     U1041D |-> "U10445", U1041E |-> "U10446", U1041F |-> "U10447", U10420 |-> "U10448",
     U10421 |-> "U10449", U10422 |-> "U1044A", U10423 |-> "U1044B", U10424 |-> "U1044C",
     U10425 |-> "U1044D", U10426 |-> "U1044E", U10427 |-> "U1044F", U104B0 |-> "U104D8",
     U104B1 |-> "U104D9", U104B2 |-> "U104DA", U104B3 |-> "U104DB", U104B4 |-> "U104DC",
     U104B5 |-> "U104DD", U104B6 |-> "U104DE", U104B7 |-> "U104DF", U104B8 |-> "U104E0",
     U104B9 |-> "U104E1", U104BA |-> "U104E2", U104BB |-> "U104E3", U104BC |-> "U104E4",
     U104BD |-> "U104E5", U104BE |-> "U104E6", U104BF |-> "U104E7", U104C0 |-> "U104E8",
     U104C1 |-> "U104E9", U104C2 |-> "U104EA", U104C3 |-> "U104EB", U104C4 |-> "U104EC",
     U104C5 |-> "U104ED", U104C6 |-> "U104EE", U104C7 |-> "U104EF", U104C8 |-> "U104F0",
     U104C9 |-> "U104F1", U104CA |-> "U104F2", U104CB |-> "U104F3", U104CC |-> "U104F4",
     U104CD |-> "U104F5", U104CE |-> "U104F6", U104CF |-> "U104F7", U104D0 |-> "U104F8",
     U104D1 |-> "U104F9", U104D2 |-> "U104FA", U104D3 |-> "U104FB", U10570 |-> "U10597",
     U10571 |-> "U10598", U10572 |-> "U10599", U10573 |-> "U1059A", U10574 |-> "U1059B",
     U10575 |-> "U1059C", U10576 |-> "U1059D", U10577 |-> "U1059E", U10578 |-> "U1059F",
     U10579 |-> "U105A0", U1057A |-> "U105A1", U1057C |-> "U105A3", U1057D |-> "U105A4",
     U1057E |-> "U105A5", U1057F |-> "U105A6", U10580 |-> "U105A7", U10581 |-> "U105A8",
     U10582 |-> "U105A9", U10583 |-> "U105AA", U10584 |-> "U105AB", U10585 |-> "U105AC",
     U10586 |-> "U105AD", U10587 |-> "U105AE", U10588 |-> "U105AF", U10589 |-> "U105B0",
     U1058A |-> "U105B1", U1058C |-> "U105B3", U1058D |-> "U105B4", U1058E |-> "U105B5",
     U1058F |-> "U105B6", U10590 |-> "U105B7", U10591 |-> "U105B8", U10592 |-> "U105B9",
     U10594 |-> "U105BB", U10595 |-> "U105BC", U10C80 |-> "U10CC0", U10C81 |-> "U10CC1",
     U10C82 |-> "U10CC2", U10C83 |-> "U10CC3", U10C84 |-> "U10CC4", U10C85 |-> "U10CC5",
     U10C86 |-> "U10CC6", U10C87 |-> "U10CC7", U10C88 |-> "U10CC8", U10C89 |-> "U10CC9",
     U10C8A |-> "U10CCA", U10C8B |-> "U10CCB", U10C8C |-> "U10CCC", U10C8D |-> "U10CCD",
     U10C8E |-> "U10CCE", U10C8F |-> "U10CCF", U10C90 |-> "U10CD0", U10C91 |-> "U10CD1",
     U10C92 |-> "U10CD2", U10C93 |-> "U10CD3", U10C94 |-> "U10CD4", U10C95 |-> "U10CD5",
     U10C96 |-> "U10CD6", U10C97 |-> "U10CD7", U10C98 |-> "U10CD8", U10C99 |-> "U10CD9",
     U10C9A |-> "U10CDA", U10C9B |-> "U10CDB", U10C9C |-> "U10CDC", U10C9D |-> "U10CDD",
     U10C9E |-> "U10CDE", U10C9F |-> "U10CDF", U10CA0 |-> "U10CE0", U10CA1 |-> "U10CE1",
     U10CA2 |-> "U10CE2", U10CA3 |-> "U10CE3", U10CA4 |-> "U10CE4", U10CA5 |-> "U10CE5",
     U10CA6 |-> "U10CE6", U10CA7 |-> "U10CE7", U10CA8 |-> "U10CE8", U10CA9 |-> "U10CE9",
     U10CAA |-> "U10CEA", U10CAB |-> "U10CEB", U10CAC |-> "U10CEC", U10CAD |-> "U10CED",
     U10CAE |-> "U10CEE", U10CAF |-> "U10CEF", U10CB0 |-> "U10CF0", U10CB1 |-> "U10CF1",
     U10CB2 |-> "U10CF2", U118A0 |-> "U118C0", U118A1 |-> "U118C1", U118A2 |-> "U118C2",
     U118A3 |-> "U118C3", U118A4 |-> "U118C4", U118A5 |-> "U118C5", U118A6 |-> "U118C6",
     U118A7 |-> "U118C7", U118A8 |-> "U118C8", U118A9 |-> "U118C9", U118AA |-> "U118CA",
     U118AB |-> "U118CB", U118AC |-> "U118CC", U118AD |-> "U118CD", U118AE |-> "U118CE",
     U118AF |-> "U118CF", U118B0 |-> "U118D0", U118B1 |-> "U118D1", U118B2 |-> "U118D2",
     U118B3 |-> "U118D3", U118B4 |-> "U118D4", U118B5 |-> "U118D5", U118B6 |-> "U118D6",
     U118B7 |-> "U118D7", U118B8 |-> "U118D8", U118B9 |-> "U118D9", U118BA |-> "U118DA",
     U118BB |-> "U118DB", U118BC |-> "U118DC", U118BD |-> "U118DD", U118BE |-> "U118DE",
     U118BF |-> "U118DF", U16E40 |-> "U16E60", U16E41 |-> "U16E61", U16E42 |-> "U16E62",
     U16E43 |-> "U16E63", U16E44 |-> "U16E64", U16E45 |-> "U16E65", U16E46 |-> "U16E66",
     U16E47 |-> "U16E67", U16E48 |-> "U16E68", U16E49 |-> "U16E69", U16E4A |-> "U16E6A",
     U16E4B |-> "U16E6B", U16E4C |-> "U16E6C", U16E4D |-> "U16E6D", U16E4E |-> "U16E6E",
     U16E4F |-> "U16E6F", U16E50 |-> "U16E70", U16E51 |-> "U16E71", U16E52 |-> "U16E72",
     U16E53 |-> "U16E73", U16E54 |-> "U16E74", U16E55 |-> "U16E75", U16E56 |-> "U16E76",
     U16E57 |-> "U16E77", U16E58 |-> "U16E78", U16E59 |-> "U16E79", U16E5A |-> "U16E7A",
     U16E5B |-> "U16E7B", U16E5C |-> "U16E7C", U16E5D |-> "U16E7D", U16E5E |-> "U16E7E",
     U16E5F |-> "U16E7F", U1E900 |-> "U1E922", U1E901 |-> "U1E923", U1E902 |-> "U1E924",
     U1E903 |-> "U1E925", U1E904 |-> "U1E926", U1E905 |-> "U1E927", U1E906 |-> "U1E928",
     U1E907 |-> "U1E929", U1E908 |-> "U1E92A", U1E909 |-> "U1E92B", U1E90A |-> "U1E92C",
     U1E90B |-> "U1E92D", U1E90C |-> "U1E92E", U1E90D |-> "U1E92F", U1E90E |-> "U1E930",
     U1E90F |-> "U1E931", U1E910 |-> "U1E932", U1E911 |-> "U1E933", U1E912 |-> "U1E934",
     U1E913 |-> "U1E935", U1E914 |-> "U1E936", U1E915 |-> "U1E937", U1E916 |-> "U1E938",
     U1E917 |-> "U1E939", U1E918 |-> "U1E93A", U1E919 |-> "U1E93B", U1E91A |-> "U1E93C",
     U1E91B |-> "U1E93D", U1E91C |-> "U1E93E", U1E91D |-> "U1E93F", U1E91E |-> "U1E940",
     U1E91F |-> "U1E941", U1E920 |-> "U1E942", U1E921 |-> "U1E943"]

\* str.lower(): the character whose lowercase is more than one character
LowerSpecial ==
    [U0130 |-> <<"i", "U0307">>]

\* c.lower(), as the sequence of its characters
LowerChar(c) ==
    IF c \in DOMAIN LowerTable THEN <<LowerTable[c]>>
    ELSE IF c \in DOMAIN LowerSpecial THEN LowerSpecial[c]
    ELSE <<c>>

\* str.upper(): the characters whose uppercase is one other character
UpperTable ==
    [a |-> "A", b |-> "B", c |-> "C", d |-> "D", e |-> "E", f |-> "F", g |-> "G", h |-> "H",
     i |-> "I", j |-> "J", k |-> "K", l |-> "L", m |-> "M", n |-> "N", o |-> "O", p |-> "P",
     q |-> "Q", r |-> "R", s |-> "S", t |-> "T", u |-> "U", v |-> "V", w |-> "W", x |-> "X",
     y |-> "Y", z |-> "Z", U00B5 |-> "U039C", U00E0 |-> "U00C0", U00E1 |-> "U00C1",
     U00E2 |-> "U00C2", U00E3 |-> "U00C3", U00E4 |-> "U00C4", U00E5 |-> "U00C5", U00E6 |-> "U00C6",
     U00E7 |-> "U00C7", U00E8 |-> "U00C8", U00E9 |-> "U00C9", U00EA |-> "U00CA", U00EB |-> "U00CB",
     U00EC |-> "U00CC", U00ED |-> "U00CD", U00EE |-> "U00CE", U00EF |-> "U00CF", U00F0 |-> "U00D0",
     U00F1 |-> "U00D1", U00F2 |-> "U00D2", U00F3 |-> "U00D3", U00F4 |-> "U00D4", U00F5 |-> "U00D5",
     U00F6 |-> "U00D6", U00F8 |-> "U00D8", U00F9 |-> "U00D9", U00FA |-> "U00DA", U00FB |-> "U00DB",
     U00FC |-> "U00DC", U00FD |-> "U00DD", U00FE |-> "U00DE", U00FF |-> "U0178", U0101 |-> "U0100",
     U0103 |-> "U0102", U0105 |-> "U0104", U0107 |-> "U0106", U0109 |-> "U0108", U010B |-> "U010A",
     U010D |-> "U010C", U010F |-> "U010E", U0111 |-> "U0110", U0113 |-> "U0112", U0115 |-> "U0114",
     U0117 |-> "U0116", U0119 |-> "U0118", U011B |-> "U011A", U011D |-> "U011C", U011F |-> "U011E",
     U0121 |-> "U0120", U0123 |-> "U0122", U0125 |-> "U0124", U0127 |-> "U0126", U0129 |-> "U0128",
     U012B |-> "U012A", U012D |-> "U012C", U012F |-> "U012E", U0131 |-> "I", U0133 |-> "U0132",
     U0135 |-> "U0134", U0137 |-> "U0136", U013A |-> "U0139", U013C |-> "U013B", U013E |-> "U013D",
     U0140 |-> "U013F", U0142 |-> "U0141", U0144 |-> "U0143", U0146 |-> "U0145", U0148 |-> "U0147",
     U014B |-> "U014A", U014D |-> "U014C", U014F |-> "U014E", U0151 |-> "U0150", U0153 |-> "U0152",
     U0155 |-> "U0154", U0157 |-> "U0156", U0159 |-> "U0158", U015B |-> "U015A", U015D |-> "U015C",
     U015F |-> "U015E", U0161 |-> "U0160", U0163 |-> "U0162", U0165 |-> "U0164", U0167 |-> "U0166",
     U0169 |-> "U0168", U016B |-> "U016A", U016D |-> "U016C", U016F |-> "U016E", U0171 |-> "U0170",
     U0173 |-> "U0172", U0175 |-> "U0174", U0177 |-> "U0176", U017A |-> "U0179", U017C |-> "U017B",
     U017E |-> "U017D", U017F |-> "S", U0180 |-> "U0243", U0183 |-> "U0182", U0185 |-> "U0184",
     U0188 |-> "U0187", U018C |-> "U018B", U0192 |-> "U0191", U0195 |-> "U01F6", U0199 |-> "U0198",
     U019A |-> "U023D", U019E |-> "U0220", U01A1 |-> "U01A0", U01A3 |-> "U01A2", U01A5 |-> "U01A4",
     U01A8 |-> "U01A7", U01AD |-> "U01AC", U01B0 |-> "U01AF", U01B4 |-> "U01B3", U01B6 |-> "U01B5",
     U01B9 |-> "U01B8", U01BD |-> "U01BC", U01BF |-> "U01F7", U01C5 |-> "U01C4", U01C6 |-> "U01C4",
     U01C8 |-> "U01C7", U01C9 |-> "U01C7", U01CB |-> "U01CA", U01CC |-> "U01CA", U01CE |-> "U01CD",
     U01D0 |-> "U01CF", U01D2 |-> "U01D1", U01D4 |-> "U01D3", U01D6 |-> "U01D5", U01D8 |-> "U01D7",
     U01DA |-> "U01D9", U01DC |-> "U01DB", U01DD |-> "U018E", U01DF |-> "U01DE", U01E1 |-> "U01E0",
     U01E3 |-> "U01E2", U01E5 |-> "U01E4", U01E7 |-> "U01E6", U01E9 |-> "U01E8", U01EB |-> "U01EA",
     U01ED |-> "U01EC", U01EF |-> "U01EE", U01F2 |-> "U01F1", U01F3 |-> "U01F1", U01F5 |-> "U01F4",
     U01F9 |-> "U01F8", U01FB |-> "U01FA", U01FD |-> "U01FC", U01FF |-> "U01FE", U0201 |-> "U0200",
     U0203 |-> "U0202", U0205 |-> "U0204", U0207 |-> "U0206", U0209 |-> "U0208", U020B |-> "U020A",
     U020D |-> "U020C", U020F |-> "U020E", U0211 |-> "U0210", U0213 |-> "U0212", U0215 |-> "U0214",
     U0217 |-> "U0216", U0219 |-> "U0218", U021B |-> "U021A", U021D |-> "U021C", U021F |-> "U021E",
     U0223 |-> "U0222", U0225 |-> "U0224", U0227 |-> "U0226", U0229 |-> "U0228", U022B |-> "U022A",
     U022D |-> "U022C", U022F |-> "U022E", U0231 |-> "U0230", U0233 |-> "U0232", U023C |-> "U023B",
     U023F |-> "U2C7E", U0240 |-> "U2C7F", U0242 |-> "U0241", U0247 |-> "U0246", U0249 |-> "U0248",
     U024B |-> "U024A", U024D |-> "U024C", U024F |-> "U024E", U0250 |-> "U2C6F", U0251 |-> "U2C6D",
     U0252 |-> "U2C70", U0253 |-> "U0181", U0254 |-> "U0186", U0256 |-> "U0189", U0257 |-> "U018A",
     U0259 |-> "U018F", U025B |-> "U0190", U025C |-> "UA7AB", U0260 |-> "U0193", U0261 |-> "UA7AC",
     U0263 |-> "U0194", U0265 |-> "UA78D", U0266 |-> "UA7AA", U0268 |-> "U0197", U0269 |-> "U0196",
     U026A |-> "UA7AE", U026B |-> "U2C62", U026C |-> "UA7AD", U026F |-> "U019C", U0271 |-> "U2C6E",
     U0272 |-> "U019D", U0275 |-> "U019F", U027D |-> "U2C64", U0280 |-> "U01A6", U0282 |-> "UA7C5",
     U0283 |-> "U01A9", U0287 |-> "UA7B1", U0288 |-> "U01AE", U0289 |-> "U0244", U028A |-> "U01B1",
     U028B |-> "U01B2", U028C |-> "U0245", U0292 |-> "U01B7", U029D |-> "UA7B2", U029E |-> "UA7B0",
     U0345 |-> "U0399", U0371 |-> "U0370", U0373 |-> "U0372", U0377 |-> "U0376", U037B |-> "U03FD",
     U037C |-> "U03FE", U037D |-> "U03FF", U03AC |-> "U0386", U03AD |-> "U0388", U03AE |-> "U0389",
     U03AF |-> "U038A", U03B1 |-> "U0391", U03B2 |-> "U0392", U03B3 |-> "U0393", U03B4 |-> "U0394",
     U03B5 |-> "U0395", U03B6 |-> "U0396", U03B7 |-> "U0397", U03B8 |-> "U0398", U03B9 |-> "U0399",
     U03BA |-> "U039A", U03BB |-> "U039B", U03BC |-> "U039C", U03BD |-> "U039D", U03BE |-> "U039E",
     U03BF |-> "U039F", U03C0 |-> "U03A0", U03C1 |-> "U03A1", U03C2 |-> "U03A3", U03C3 |-> "U03A3",
     U03C4 |-> "U03A4", U03C5 |-> "U03A5", U03C6 |-> "U03A6", U03C7 |-> "U03A7", U03C8 |-> "U03A8",
     U03C9 |-> "U03A9", U03CA |-> "U03AA", U03CB |-> "U03AB", U03CC |-> "U038C", U03CD |-> "U038E",
     U03CE |-> "U038F", U03D0 |-> "U0392", U03D1 |-> "U0398", U03D5 |-> "U03A6", U03D6 |-> "U03A0",
     U03D7 |-> "U03CF", U03D9 |-> "U03D8", U03DB |-> "U03DA", U03DD |-> "U03DC", U03DF |-> "U03DE",
     U03E1 |-> "U03E0", U03E3 |-> "U03E2", U03E5 |-> "U03E4", U03E7 |-> "U03E6", U03E9 |-> "U03E8",
     U03EB |-> "U03EA", U03ED |-> "U03EC", U03EF |-> "U03EE", U03F0 |-> "U039A", U03F1 |-> "U03A1",
     U03F2 |-> "U03F9", U03F3 |-> "U037F", U03F5 |-> "U0395", U03F8 |-> "U03F7", U03FB |-> "U03FA",
     U0430 |-> "U0410", U0431 |-> "U0411", U0432 |-> "U0412", U0433 |-> "U0413", U0434 |-> "U0414",
     U0435 |-> "U0415", U0436 |-> "U0416", U0437 |-> "U0417", U0438 |-> "U0418", U0439 |-> "U0419",
     U043A |-> "U041A", U043B |-> "U041B", U043C |-> "U041C", U043D |-> "U041D", U043E |-> "U041E",
     U043F |-> "U041F", U0440 |-> "U0420", U0441 |-> "U0421", U0442 |-> "U0422", U0443 |-> "U0423",
     U0444 |-> "U0424", U0445 |-> "U0425", U0446 |-> "U0426", U0447 |-> "U0427", U0448 |-> "U0428",
     U0449 |-> "U0429", U044A |-> "U042A", U044B |-> "U042B", U044C |-> "U042C", U044D |-> "U042D",
     U044E |-> "U042E", U044F |-> "U042F", U0450 |-> "U0400", U0451 |-> "U0401", U0452 |-> "U0402",
     U0453 |-> "U0403", U0454 |-> "U0404", U0455 |-> "U0405", U0456 |-> "U0406", U0457 |-> "U0407",
     U0458 |-> "U0408", U0459 |-> "U0409", U045A |-> "U040A", U045B |-> "U040B", U045C |-> "U040C",
     U045D |-> "U040D", U045E |-> "U040E", U045F |-> "U040F", U0461 |-> "U0460", U0463 |-> "U0462",
     U0465 |-> "U0464", U0467 |-> "U0466", U0469 |-> "U0468", U046B |-> "U046A", U046D |-> "U046C",
     U046F |-> "U046E", U0471 |-> "U0470", U0473 |-> "U0472", U0475 |-> "U0474", U0477 |-> "U0476",
     U0479 |-> "U0478", U047B |-> "U047A", U047D |-> "U047C", U047F |-> "U047E", U0481 |-> "U0480",
     U048B |-> "U048A", U048D |-> "U048C", U048F |-> "U048E", U0491 |-> "U0490", U0493 |-> "U0492",
     U0495 |-> "U0494", U0497 |-> "U0496", U0499 |-> "U0498", U049B |-> "U049A", U049D |-> "U049C",
     U049F |-> "U049E", U04A1 |-> "U04A0", U04A3 |-> "U04A2", U04A5 |-> "U04A4", U04A7 |-> "U04A6",
     U04A9 |-> "U04A8", U04AB |-> "U04AA", U04AD |-> "U04AC", U04AF |-> "U04AE", U04B1 |-> "U04B0",
     U04B3 |-> "U04B2", U04B5 |-> "U04B4", U04B7 |-> "U04B6", U04B9 |-> "U04B8", U04BB |-> "U04BA",
     U04BD |-> "U04BC", U04BF |-> "U04BE", U04C2 |-> "U04C1", U04C4 |-> "U04C3", U04C6 |-> "U04C5",
     U04C8 |-> "U04C7", U04CA |-> "U04C9", U04CC |-> "U04CB", U04CE |-> "U04CD", U04CF |-> "U04C0",
     U04D1 |-> "U04D0", U04D3 |-> "U04D2", U04D5 |-> "U04D4", U04D7 |-> "U04D6", U04D9 |-> "U04D8",
     U04DB |-> "U04DA", U04DD |-> "U04DC", U04DF |-> "U04DE", U04E1 |-> "U04E0", U04E3 |-> "U04E2",
     U04E5 |-> "U04E4", U04E7 |-> "U04E6", U04E9 |-> "U04E8", U04EB |-> "U04EA", U04ED |-> "U04EC",
     U04EF |-> "U04EE", U04F1 |-> "U04F0", U04F3 |-> "U04F2", U04F5 |-> "U04F4", U04F7 |-> "U04F6",
     U04F9 |-> "U04F8", U04FB |-> "U04FA", U04FD |-> "U04FC", U04FF |-> "U04FE", U0501 |-> "U0500",
     U0503 |-> "U0502", U0505 |-> "U0504", U0507 |-> "U0506", U0509 |-> "U0508", U050B |-> "U050A",
     U050D |-> "U050C", U050F |-> "U050E", U0511 |-> "U0510", U0513 |-> "U0512", U0515 |-> "U0514",
     U0517 |-> "U0516", U0519 |-> "U0518", U051B |-> "U051A", U051D |-> "U051C", U051F |-> "U051E",
     U0521 |-> "U0520", U0523 |-> "U0522", U0525 |-> "U0524", U0527 |-> "U0526", U0529 |-> "U0528",
     U052B |-> "U052A", U052D |-> "U052C", U052F |-> "U052E", U0561 |-> "U0531", U0562 |-> "U0532",
     U0563 |-> "U0533", U0564 |-> "U0534", U0565 |-> "U0535", U0566 |-> "U0536", U0567 |-> "U0537",
     U0568 |-> "U0538", U0569 |-> "U0539", U056A |-> "U053A", U056B |-> "U053B", U056C |-> "U053C",
     U056D |-> "U053D", U056E |-> "U053E", U056F |-> "U053F", U0570 |-> "U0540", U0571 |-> "U0541",
     U0572 |-> "U0542", U0573 |-> "U0543", U0574 |-> "U0544", U0575 |-> "U0545", U0576 |-> "U0546",
     U0577 |-> "U0547", U0578 |-> "U0548", U0579 |-> "U0549", U057A |-> "U054A", U057B |-> "U054B",
     U057C |-> "U054C", U057D |-> "U054D", U057E |-> "U054E", U057F |-> "U054F", U0580 |-> "U0550",
     U0581 |-> "U0551", U0582 |-> "U0552", U0583 |-> "U0553", U0584 |-> "U0554", U0585 |-> "U0555",
     U0586 |-> "U0556", U10D0 |-> "U1C90", U10D1 |-> "U1C91", U10D2 |-> "U1C92", U10D3 |-> "U1C93",
     U10D4 |-> "U1C94", U10D5 |-> "U1C95", U10D6 |-> "U1C96", U10D7 |-> "U1C97", U10D8 |-> "U1C98",
     U10D9 |-> "U1C99", U10DA |-> "U1C9A", U10DB |-> "U1C9B", U10DC |-> "U1C9C", U10DD |-> "U1C9D",
     U10DE |-> "U1C9E", U10DF |-> "U1C9F", U10E0 |-> "U1CA0", U10E1 |-> "U1CA1", U10E2 |-> "U1CA2",
     U10E3 |-> "U1CA3", U10E4 |-> "U1CA4", U10E5 |-> "U1CA5", U10E6 |-> "U1CA6", U10E7 |-> "U1CA7",
     U10E8 |-> "U1CA8", U10E9 |-> "U1CA9", U10EA |-> "U1CAA", U10EB |-> "U1CAB", U10EC |-> "U1CAC",
     U10ED |-> "U1CAD", U10EE |-> "U1CAE", U10EF |-> "U1CAF", U10F0 |-> "U1CB0", U10F1 |-> "U1CB1",
     U10F2 |-> "U1CB2", U10F3 |-> "U1CB3", U10F4 |-> "U1CB4", U10F5 |-> "U1CB5", U10F6 |-> "U1CB6",
     U10F7 |-> "U1CB7", U10F8 |-> "U1CB8", U10F9 |-> "U1CB9", U10FA |-> "U1CBA", U10FD |-> "U1CBD",
     U10FE |-> "U1CBE", U10FF |-> "U1CBF", U13F8 |-> "U13F0", U13F9 |-> "U13F1", U13FA |-> "U13F2",
     U13FB |-> "U13F3", U13FC |-> "U13F4", U13FD |-> "U13F5", U1C80 |-> "U0412", U1C81 |-> "U0414",
     U1C82 |-> "U041E", U1C83 |-> "U0421", U1C84 |-> "U0422", U1C85 |-> "U0422", U1C86 |-> "U042A",
     U1C87 |-> "U0462", U1C88 |-> "UA64A", U1D79 |-> "UA77D", U1D7D |-> "U2C63", U1D8E |-> "UA7C6",
     U1E01 |-> "U1E00", U1E03 |-> "U1E02", U1E05 |-> "U1E04", U1E07 |-> "U1E06", U1E09 |-> "U1E08",
     U1E0B |-> "U1E0A", U1E0D |-> "U1E0C", U1E0F |-> "U1E0E", U1E11 |-> "U1E10", U1E13 |-> "U1E12",
     U1E15 |-> "U1E14", U1E17 |-> "U1E16", U1E19 |-> "U1E18", U1E1B |-> "U1E1A", U1E1D |-> "U1E1C",
     U1E1F |-> "U1E1E", U1E21 |-> "U1E20", U1E23 |-> "U1E22", U1E25 |-> "U1E24", U1E27 |-> "U1E26",
     U1E29 |-> "U1E28", U1E2B |-> "U1E2A", U1E2D |-> "U1E2C", U1E2F |-> "U1E2E", U1E31 |-> "U1E30",
     U1E33 |-> "U1E32", U1E35 |-> "U1E34", U1E37 |-> "U1E36", U1E39 |-> "U1E38", U1E3B |-> "U1E3A",
     U1E3D |-> "U1E3C", U1E3F |-> "U1E3E", U1E41 |-> "U1E40", U1E43 |-> "U1E42", U1E45 |-> "U1E44",
     U1E47 |-> "U1E46", U1E49 |-> "U1E48", U1E4B |-> "U1E4A", U1E4D |-> "U1E4C", U1E4F |-> "U1E4E",
     U1E51 |-> "U1E50", U1E53 |-> "U1E52", U1E55 |-> "U1E54", U1E57 |-> "U1E56", U1E59 |-> "U1E58",
     U1E5B |-> "U1E5A", U1E5D |-> "U1E5C", U1E5F |-> "U1E5E", U1E61 |-> "U1E60", U1E63 |-> "U1E62",
     U1E65 |-> "U1E64", U1E67 |-> "U1E66", U1E69 |-> "U1E68", U1E6B |-> "U1E6A", U1E6D |-> "U1E6C",
     U1E6F |-> "U1E6E", U1E71 |-> "U1E70", U1E73 |-> "U1E72", U1E75 |-> "U1E74", U1E77 |-> "U1E76",
     U1E79 |-> "U1E78", U1E7B |-> "U1E7A", U1E7D |-> "U1E7C", U1E7F |-> "U1E7E", U1E81 |-> "U1E80",
     U1E83 |-> "U1E82", U1E85 |-> "U1E84", U1E87 |-> "U1E86", U1E89 |-> "U1E88", U1E8B |-> "U1E8A",
     U1E8D |-> "U1E8C", U1E8F |-> "U1E8E", U1E91 |-> "U1E90", U1E93 |-> "U1E92", U1E95 |-> "U1E94",
     U1E9B |-> "U1E60", U1EA1 |-> "U1EA0", U1EA3 |-> "U1EA2", U1EA5 |-> "U1EA4", U1EA7 |-> "U1EA6",
     U1EA9 |-> "U1EA8", U1EAB |-> "U1EAA", U1EAD |-> "U1EAC", U1EAF |-> "U1EAE", U1EB1 |-> "U1EB0",
     U1EB3 |-> "U1EB2", U1EB5 |-> "U1EB4", U1EB7 |-> "U1EB6", U1EB9 |-> "U1EB8", U1EBB |-> "U1EBA",
     U1EBD |-> "U1EBC", U1EBF |-> "U1EBE", U1EC1 |-> "U1EC0", U1EC3 |-> "U1EC2", U1EC5 |-> "U1EC4",
     U1EC7 |-> "U1EC6", U1EC9 |-> "U1EC8", U1ECB |-> "U1ECA", U1ECD |-> "U1ECC", U1ECF |-> "U1ECE",
     U1ED1 |-> "U1ED0", U1ED3 |-> "U1ED2", U1ED5 |-> "U1ED4", U1ED7 |-> "U1ED6", U1ED9 |-> "U1ED8",
     U1EDB |-> "U1EDA", U1EDD |-> "U1EDC", U1EDF |-> "U1EDE", U1EE1 |-> "U1EE0", U1EE3 |-> "U1EE2",
     U1EE5 |-> "U1EE4", U1EE7 |-> "U1EE6", U1EE9 |-> "U1EE8", U1EEB |-> "U1EEA", U1EED |-> "U1EEC",
     U1EEF |-> "U1EEE", U1EF1 |-> "U1EF0", U1EF3 |-> "U1EF2", U1EF5 |-> "U1EF4", U1EF7 |-> "U1EF6",
     U1EF9 |-> "U1EF8", U1EFB |-> "U1EFA", U1EFD |-> "U1EFC", U1EFF |-> "U1EFE", U1F00 |-> "U1F08",
     U1F01 |-> "U1F09", U1F02 |-> "U1F0A", U1F03 |-> "U1F0B", U1F04 |-> "U1F0C", U1F05 |-> "U1F0D",
     U1F06 |-> "U1F0E", U1F07 |-> "U1F0F", U1F10 |-> "U1F18", U1F11 |-> "U1F19", U1F12 |-> "U1F1A",
     U1F13 |-> "U1F1B", U1F14 |-> "U1F1C", U1F15 |-> "U1F1D", U1F20 |-> "U1F28", U1F21 |-> "U1F29",
     U1F22 |-> "U1F2A", U1F23 |-> "U1F2B", U1F24 |-> "U1F2C", U1F25 |-> "U1F2D", U1F26 |-> "U1F2E",
     U1F27 |-> "U1F2F", U1F30 |-> "U1F38", U1F31 |-> "U1F39", U1F32 |-> "U1F3A", U1F33 |-> "U1F3B",
     U1F34 |-> "U1F3C", U1F35 |-> "U1F3D", U1F36 |-> "U1F3E", U1F37 |-> "U1F3F", U1F40 |-> "U1F48",
     U1F41 |-> "U1F49", U1F42 |-> "U1F4A", U1F43 |-> "U1F4B", U1F44 |-> "U1F4C", U1F45 |-> "U1F4D",
     U1F51 |-> "U1F59", U1F53 |-> "U1F5B", U1F55 |-> "U1F5D", U1F57 |-> "U1F5F", U1F60 |-> "U1F68",
     U1F61 |-> "U1F69", U1F62 |-> "U1F6A", U1F63 |-> "U1F6B", U1F64 |-> "U1F6C", U1F65 |-> "U1F6D",
     U1F66 |-> "U1F6E", U1F67 |-> "U1F6F", U1F70 |-> "U1FBA", U1F71 |-> "U1FBB", U1F72 |-> "U1FC8",
     U1F73 |-> "U1FC9", U1F74 |-> "U1FCA", U1F75 |-> "U1FCB", U1F76 |-> "U1FDA", U1F77 |-> "U1FDB",
     U1F78 |-> "U1FF8", U1F79 |-> "U1FF9", U1F7A |-> "U1FEA", U1F7B |-> "U1FEB", U1F7C |-> "U1FFA",
     U1F7D |-> "U1FFB", U1FB0 |-> "U1FB8", U1FB1 |-> "U1FB9", U1FBE |-> "U0399", U1FD0 |-> "U1FD8",
     U1FD1 |-> "U1FD9", U1FE0 |-> "U1FE8", U1FE1 |-> "U1FE9", U1FE5 |-> "U1FEC", U214E |-> "U2132",
     U2170 |-> "U2160", U2171 |-> "U2161", U2172 |-> "U2162", U2173 |-> "U2163", U2174 |-> "U2164",
     U2175 |-> "U2165", U2176 |-> "U2166", U2177 |-> "U2167", U2178 |-> "U2168", U2179 |-> "U2169",
     U217A |-> "U216A", U217B |-> "U216B", U217C |-> "U216C", U217D |-> "U216D", U217E |-> "U216E",
     U217F |-> "U216F", U2184 |-> "U2183", U24D0 |-> "U24B6", U24D1 |-> "U24B7", U24D2 |-> "U24B8",
     U24D3 |-> "U24B9", U24D4 |-> "U24BA", U24D5 |-> "U24BB", U24D6 |-> "U24BC", U24D7 |-> "U24BD",
     U24D8 |-> "U24BE", U24D9 |-> "U24BF", U24DA |-> "U24C0", U24DB |-> "U24C1", U24DC |-> "U24C2",
     U24DD |-> "U24C3", U24DE |-> "U24C4", U24DF |-> "U24C5", U24E0 |-> "U24C6", U24E1 |-> "U24C7",
     U24E2 |-> "U24C8", U24E3 |-> "U24C9", U24E4 |-> "U24CA", U24E5 |-> "U24CB", U24E6 |-> "U24CC",
     U24E7 |-> "U24CD", U24E8 |-> "U24CE", U24E9 |-> "U24CF", U2C30 |-> "U2C00", U2C31 |-> "U2C01",
     U2C32 |-> "U2C02", U2C33 |-> "U2C03", U2C34 |-> "U2C04", U2C35 |-> "U2C05", U2C36 |-> "U2C06",
     U2C37 |-> "U2C07", U2C38 |-> "U2C08", U2C39 |-> "U2C09", U2C3A |-> "U2C0A", U2C3B |-> "U2C0B",
     U2C3C |-> "U2C0C", U2C3D |-> "U2C0D", U2C3E |-> "U2C0E", U2C3F |-> "U2C0F", U2C40 |-> "U2C10",
     U2C41 |-> "U2C11", U2C42 |-> "U2C12", U2C43 |-> "U2C13", U2C44 |-> "U2C14", U2C45 |-> "U2C15",
     U2C46 |-> "U2C16", U2C47 |-> "U2C17", U2C48 |-> "U2C18", U2C49 |-> "U2C19", U2C4A |-> "U2C1A",
     U2C4B |-> "U2C1B", U2C4C |-> "U2C1C", U2C4D |-> "U2C1D", U2C4E |-> "U2C1E", U2C4F |-> "U2C1F",
     U2C50 |-> "U2C20", U2C51 |-> "U2C21", U2C52 |-> "U2C22", U2C53 |-> "U2C23", U2C54 |-> "U2C24",
     U2C55 |-> "U2C25", U2C56 |-> "U2C26", U2C57 |-> "U2C27", U2C58 |-> "U2C28", U2C59 |-> "U2C29",
     U2C5A |-> "U2C2A", U2C5B |-> "U2C2B", U2C5C |-> "U2C2C", U2C5D |-> "U2C2D", U2C5E |-> "U2C2E",
     U2C5F |-> "U2C2F", U2C61 |-> "U2C60", U2C65 |-> "U023A", U2C66 |-> "U023E", U2C68 |-> "U2C67",
     U2C6A |-> "U2C69", U2C6C |-> "U2C6B", U2C73 |-> "U2C72", U2C76 |-> "U2C75", U2C81 |-> "U2C80",
     U2C83 |-> "U2C82", U2C85 |-> "U2C84", U2C87 |-> "U2C86", U2C89 |-> "U2C88", U2C8B |-> "U2C8A",
     U2C8D |-> "U2C8C", U2C8F |-> "U2C8E", U2C91 |-> "U2C90", U2C93 |-> "U2C92", U2C95 |-> "U2C94",
     U2C97 |-> "U2C96", U2C99 |-> "U2C98", U2C9B |-> "U2C9A", U2C9D |-> "U2C9C", U2C9F |-> "U2C9E",
     U2CA1 |-> "U2CA0", U2CA3 |-> "U2CA2", U2CA5 |-> "U2CA4", U2CA7 |-> "U2CA6", U2CA9 |-> "U2CA8",
     U2CAB |-> "U2CAA", U2CAD |-> "U2CAC", U2CAF |-> "U2CAE", U2CB1 |-> "U2CB0", U2CB3 |-> "U2CB2",
     U2CB5 |-> "U2CB4", U2CB7 |-> "U2CB6", U2CB9 |-> "U2CB8", U2CBB |-> "U2CBA", U2CBD |-> "U2CBC",
     U2CBF |-> "U2CBE", U2CC1 |-> "U2CC0", U2CC3 |-> "U2CC2", U2CC5 |-> "U2CC4", U2CC7 |-> "U2CC6",
     U2CC9 |-> "U2CC8", U2CCB |-> "U2CCA", U2CCD |-> "U2CCC", U2CCF |-> "U2CCE", U2CD1 |-> "U2CD0",
     U2CD3 |-> "U2CD2", U2CD5 |-> "U2CD4", U2CD7 |-> "U2CD6", U2CD9 |-> "U2CD8", U2CDB |-> "U2CDA",
     U2CDD |-> "U2CDC", U2CDF |-> "U2CDE", U2CE1 |-> "U2CE0", U2CE3 |-> "U2CE2", U2CEC |-> "U2CEB",
     U2CEE |-> "U2CED", U2CF3 |-> "U2CF2", U2D00 |-> "U10A0", U2D01 |-> "U10A1", U2D02 |-> "U10A2",
     U2D03 |-> "U10A3", U2D04 |-> "U10A4", U2D05 |-> "U10A5", U2D06 |-> "U10A6", U2D07 |-> "U10A7",
     U2D08 |-> "U10A8", U2D09 |-> "U10A9", U2D0A |-> "U10AA", U2D0B |-> "U10AB", U2D0C |-> "U10AC",
     U2D0D |-> "U10AD", U2D0E |-> "U10AE", U2D0F |-> "U10AF", U2D10 |-> "U10B0", U2D11 |-> "U10B1",
     U2D12 |-> "U10B2", U2D13 |-> "U10B3", U2D14 |-> "U10B4", U2D15 |-> "U10B5", U2D16 |-> "U10B6",
     U2D17 |-> "U10B7", U2D18 |-> "U10B8", U2D19 |-> "U10B9", U2D1A |-> "U10BA", U2D1B |-> "U10BB",
     U2D1C |-> "U10BC", U2D1D |-> "U10BD", U2D1E |-> "U10BE", U2D1F |-> "U10BF", U2D20 |-> "U10C0",
     U2D21 |-> "U10C1", U2D22 |-> "U10C2", U2D23 |-> "U10C3", U2D24 |-> "U10C4", U2D25 |-> "U10C5",
     U2D27 |-> "U10C7", U2D2D |-> "U10CD", UA641 |-> "UA640", UA643 |-> "UA642", UA645 |-> "UA644",
     UA647 |-> "UA646", UA649 |-> "UA648", UA64B |-> "UA64A", UA64D |-> "UA64C", UA64F |-> "UA64E",
     UA651 |-> "UA650", UA653 |-> "UA652", UA655 |-> "UA654", UA657 |-> "UA656", UA659 |-> "UA658",
     UA65B |-> "UA65A", UA65D |-> "UA65C", UA65F |-> "UA65E", UA661 |-> "UA660", UA663 |-> "UA662",
     UA665 |-> "UA664", UA667 |-> "UA666", UA669 |-> "UA668", UA66B |-> "UA66A", UA66D |-> "UA66C",
     UA681 |-> "UA680", UA683 |-> "UA682", UA685 |-> "UA684", UA687 |-> "UA686", UA689 |-> "UA688",
     UA68B |-> "UA68A", UA68D |-> "UA68C", UA68F |-> "UA68E", UA691 |-> "UA690", UA693 |-> "UA692",
     UA695 |-> "UA694", UA697 |-> "UA696", UA699 |-> "UA698", UA69B |-> "UA69A", UA723 |-> "UA722",
     UA725 |-> "UA724", UA727 |-> "UA726", UA729 |-> "UA728", UA72B |-> "UA72A", UA72D |-> "UA72C",
     UA72F |-> "UA72E", UA733 |-> "UA732", UA735 |-> "UA734", UA737 |-> "UA736", UA739 |-> "UA738",
     UA73B |-> "UA73A", UA73D |-> "UA73C", UA73F |-> "UA73E", UA741 |-> "UA740", UA743 |-> "UA742",
     UA745 |-> "UA744", UA747 |-> "UA746", UA749 |-> "UA748", UA74B |-> "UA74A", UA74D |-> "UA74C",
     UA74F |-> "UA74E", UA751 |-> "UA750", UA753 |-> "UA752", UA755 |-> "UA754", UA757 |-> "UA756",
     UA759 |-> "UA758", UA75B |-> "UA75A", UA75D |-> "UA75C", UA75F |-> "UA75E", UA761 |-> "UA760",
     UA763 |-> "UA762", UA765 |-> "UA764", UA767 |-> "UA766", UA769 |-> "UA768", UA76B |-> "UA76A",
     UA76D |-> "UA76C", UA76F |-> "UA76E", UA77A |-> "UA779", UA77C |-> "UA77B", UA77F |-> "UA77E",
     UA781 |-> "UA780", UA783 |-> "UA782", UA785 |-> "UA784", UA787 |-> "UA786", UA78C |-> "UA78B",
     UA791 |-> "UA790", UA793 |-> "UA792", UA794 |-> "UA7C4", UA797 |-> "UA796", UA799 |-> "UA798",
     UA79B |-> "UA79A", UA79D |-> "UA79C", UA79F |-> "UA79E", UA7A1 |-> "UA7A0", UA7A3 |-> "UA7A2",
     UA7A5 |-> "UA7A4", UA7A7 |-> "UA7A6", UA7A9 |-> "UA7A8", UA7B5 |-> "UA7B4", UA7B7 |-> "UA7B6",
     UA7B9 |-> "UA7B8", UA7BB |-> "UA7BA", UA7BD |-> "UA7BC", UA7BF |-> "UA7BE", UA7C1 |-> "UA7C0",
     UA7C3 |-> "UA7C2", UA7C8 |-> "UA7C7", UA7CA |-> "UA7C9", UA7D1 |-> "UA7D0", UA7D7 |-> "UA7D6",
     UA7D9 |-> "UA7D8", UA7F6 |-> "UA7F5", UAB53 |-> "UA7B3", UAB70 |-> "U13A0", UAB71 |-> "U13A1",
     UAB72 |-> "U13A2", UAB73 |-> "U13A3", UAB74 |-> "U13A4", UAB75 |-> "U13A5", UAB76 |-> "U13A6",
     UAB77 |-> "U13A7", UAB78 |-> "U13A8", UAB79 |-> "U13A9", UAB7A |-> "U13AA", UAB7B |-> "U13AB",
     UAB7C |-> "U13AC", UAB7D |-> "U13AD", UAB7E |-> "U13AE", UAB7F |-> "U13AF", UAB80 |-> "U13B0",
     UAB81 |-> "U13B1", UAB82 |-> "U13B2", UAB83 |-> "U13B3", UAB84 |-> "U13B4", UAB85 |-> "U13B5",
     UAB86 |-> "U13B6", UAB87 |-> "U13B7", UAB88 |-> "U13B8", UAB89 |-> "U13B9", UAB8A |-> "U13BA",
     UAB8B |-> "U13BB", UAB8C |-> "U13BC", UAB8D |-> "U13BD", UAB8E |-> "U13BE", UAB8F |-> "U13BF",
     UAB90 |-> "U13C0", UAB91 |-> "U13C1", UAB92 |-> "U13C2", UAB93 |-> "U13C3", UAB94 |-> "U13C4",
     UAB95 |-> "U13C5", UAB96 |-> "U13C6", UAB97 |-> "U13C7", UAB98 |-> "U13C8", UAB99 |-> "U13C9",
     UAB9A |-> "U13CA", UAB9B |-> "U13CB", UAB9C |-> "U13CC", UAB9D |-> "U13CD", UAB9E |-> "U13CE",
     UAB9F |-> "U13CF", UABA0 |-> "U13D0", UABA1 |-> "U13D1", UABA2 |-> "U13D2", UABA3 |-> "U13D3",
     UABA4 |-> "U13D4", UABA5 |-> "U13D5", UABA6 |-> "U13D6", UABA7 |-> "U13D7", UABA8 |-> "U13D8",
     UABA9 |-> "U13D9", UABAA |-> "U13DA", UABAB |-> "U13DB", UABAC |-> "U13DC", UABAD |-> "U13DD",
     UABAE |-> "U13DE", UABAF |-> "U13DF", UABB0 |-> "U13E0", UABB1 |-> "U13E1", UABB2 |-> "U13E2",
     UABB3 |-> "U13E3", UABB4 |-> "U13E4", UABB5 |-> "U13E5", UABB6 |-> "U13E6", UABB7 |-> "U13E7",
     UABB8 |-> "U13E8", UABB9 |-> "U13E9", UABBA |-> "U13EA", UABBB |-> "U13EB", UABBC |-> "U13EC",
     UABBD |-> "U13ED", UABBE |-> "U13EE", UABBF |-> "U13EF", UFF41 |-> "UFF21", UFF42 |-> "UFF22",
     UFF43 |-> "UFF23", UFF44 |-> "UFF24", UFF45 |-> "UFF25", UFF46 |-> "UFF26", UFF47 |-> "UFF27",
     UFF48 |-> "UFF28", UFF49 |-> "UFF29", UFF4A |-> "UFF2A", UFF4B |-> "UFF2B", UFF4C |-> "UFF2C",
     UFF4D |-> "UFF2D", UFF4E |-> "UFF2E", UFF4F |-> "UFF2F", UFF50 |-> "UFF30", UFF51 |-> "UFF31",
     UFF52 |-> "UFF32", UFF53 |-> "UFF33", UFF54 |-> "UFF34", UFF55 |-> "UFF35", UFF56 |-> "UFF36",
     UFF57 |-> "UFF37", UFF58 |-> "UFF38", UFF59 |-> "UFF39", UFF5A |-> "UFF3A",
     U10428 |-> "U10400", U10429 |-> "U10401", U1042A |-> "U10402", U1042B |-> "U10403",
     U1042C |-> "U10404", U1042D |-> "U10405", U1042E |-> "U10406", U1042F |-> "U10407",
     U10430 |-> "U10408", U10431 |-> "U10409", U10432 |-> "U1040A", U10433 |-> "U1040B",
     U10434 |-> "U1040C", U10435 |-> "U1040D", U10436 |-> "U1040E", U10437 |-> "U1040F",
     U10438 |-> "U10410", U10439 |-> "U10411", U1043A |-> "U10412", U1043B |-> "U10413",
     U1043C |-> "U10414", U1043D |-> "U10415", U1043E |-> "U10416", U1043F |-> "U10417",
     U10440 |-> "U10418", U10441 |-> "U10419", U10442 |-> "U1041A", U10443 |-> "U1041B",
     U10444 |-> "U1041C", U10445 |-> "U1041D", U10446 |-> "U1041E", U10447 |-> "U1041F",
     U10448 |-> "U10420", U10449 |-> "U10421", U1044A |-> "U10422", U1044B |-> "U10423",
     U1044C |-> "U10424", U1044D |-> "U10425", U1044E |-> "U10426", U1044F |-> "U10427",
     U104D8 |-> "U104B0", U104D9 |-> "U104B1", U104DA |-> "U104B2", U104DB |-> "U104B3",
     U104DC |-> "U104B4", U104DD |-> "U104B5", U104DE |-> "U104B6", U104DF |-> "U104B7",
     U104E0 |-> "U104B8", U104E1 |-> "U104B9", U104E2 |-> "U104BA", U104E3 |-> "U104BB",
     U104E4 |-> "U104BC", U104E5 |-> "U104BD", U104E6 |-> "U104BE", U104E7 |-> "U104BF",
     U104E8 |-> "U104C0", U104E9 |-> "U104C1", U104EA |-> "U104C2", U104EB |-> "U104C3",
     U104EC |-> "U104C4", U104ED |-> "U104C5", U104EE |-> "U104C6", U104EF |-> "U104C7",
     U104F0 |-> "U104C8", U104F1 |-> "U104C9", U104F2 |-> "U104CA", U104F3 |-> "U104CB",
     U104F4 |-> "U104CC", U104F5 |-> "U104CD", U104F6 |-> "U104CE", U104F7 |-> "U104CF",
     U104F8 |-> "U104D0", U104F9 |-> "U104D1", U104FA |-> "U104D2", U104FB |-> "U104D3",
     U10597 |-> "U10570", U10598 |-> "U10571", U10599 |-> "U10572", U1059A |-> "U10573",
     U1059B |-> "U10574", U1059C |-> "U10575", U1059D |-> "U10576", U1059E |-> "U10577",
     U1059F |-> "U10578", U105A0 |-> "U10579", U105A1 |-> "U1057A", U105A3 |-> "U1057C",
     U105A4 |-> "U1057D", U105A5 |-> "U1057E", U105A6 |-> "U1057F", U105A7 |-> "U10580",
     U105A8 |-> "U10581", U105A9 |-> "U10582", U105AA |-> "U10583", U105AB |-> "U10584",
     U105AC |-> "U10585", U105AD |-> "U10586", U105AE |-> "U10587", U105AF |-> "U10588",
     U105B0 |-> "U10589", U105B1 |-> "U1058A", U105B3 |-> "U1058C", U105B4 |-> "U1058D",
     U105B5 |-> "U1058E", U105B6 |-> "U1058F", U105B7 |-> "U10590", U105B8 |-> "U10591",
     U105B9 |-> "U10592", U105BB |-> "U10594", U105BC |-> "U10595", U10CC0 |-> "U10C80",
     U10CC1 |-> "U10C81", U10CC2 |-> "U10C82", U10CC3 |-> "U10C83", U10CC4 |-> "U10C84",
     U10CC5 |-> "U10C85", U10CC6 |-> "U10C86", U10CC7 |-> "U10C87", U10CC8 |-> "U10C88",
     U10CC9 |-> "U10C89", U10CCA |-> "U10C8A", U10CCB |-> "U10C8B", U10CCC |-> "U10C8C",
     U10CCD |-> "U10C8D", U10CCE |-> "U10C8E", U10CCF |-> "U10C8F", U10CD0 |-> "U10C90",
     U10CD1 |-> "U10C91", U10CD2 |-> "U10C92", U10CD3 |-> "U10C93", U10CD4 |-> "U10C94",
     U10CD5 |-> "U10C95", U10CD6 |-> "U10C96", U10CD7 |-> "U10C97", U10CD8 |-> "U10C98",
     U10CD9 |-> "U10C99", U10CDA |-> "U10C9A", U10CDB |-> "U10C9B", U10CDC |-> "U10C9C",
     U10CDD |-> "U10C9D", U10CDE |-> "U10C9E", U10CDF |-> "U10C9F", U10CE0 |-> "U10CA0",
     U10CE1 |-> "U10CA1", U10CE2 |-> "U10CA2", U10CE3 |-> "U10CA3", U10CE4 |-> "U10CA4",
     U10CE5 |-> "U10CA5", U10CE6 |-> "U10CA6", U10CE7 |-> "U10CA7", U10CE8 |-> "U10CA8",
     U10CE9 |-> "U10CA9", U10CEA |-> "U10CAA", U10CEB |-> "U10CAB", U10CEC |-> "U10CAC",
     U10CED |-> "U10CAD", U10CEE |-> "U10CAE", U10CEF |-> "U10CAF", U10CF0 |-> "U10CB0",
     U10CF1 |-> "U10CB1", U10CF2 |-> "U10CB2", U118C0 |-> "U118A0", U118C1 |-> "U118A1",
     U118C2 |-> "U118A2", U118C3 |-> "U118A3", U118C4 |-> "U118A4", U118C5 |-> "U118A5",
     U118C6 |-> "U118A6", U118C7 |-> "U118A7", U118C8 |-> "U118A8", U118C9 |-> "U118A9",
     U118CA |-> "U118AA", U118CB |-> "U118AB", U118CC |-> "U118AC", U118CD |-> "U118AD",
     U118CE |-> "U118AE", U118CF |-> "U118AF", U118D0 |-> "U118B0", U118D1 |-> "U118B1",
     U118D2 |-> "U118B2", U118D3 |-> "U118B3", U118D4 |-> "U118B4", U118D5 |-> "U118B5",
     U118D6 |-> "U118B6", U118D7 |-> "U118B7", U118D8 |-> "U118B8", U118D9 |-> "U118B9",
     U118DA |-> "U118BA", U118DB |-> "U118BB", U118DC |-> "U118BC", U118DD |-> "U118BD",
     U118DE |-> "U118BE", U118DF |-> "U118BF", U16E60 |-> "U16E40", U16E61 |-> "U16E41",
     U16E62 |-> "U16E42", U16E63 |-> "U16E43", U16E64 |-> "U16E44", U16E65 |-> "U16E45",
     U16E66 |-> "U16E46", U16E67 |-> "U16E47", U16E68 |-> "U16E48", U16E69 |-> "U16E49",
     U16E6A |-> "U16E4A", U16E6B |-> "U16E4B", U16E6C |-> "U16E4C", U16E6D |-> "U16E4D",
     U16E6E |-> "U16E4E", U16E6F |-> "U16E4F", U16E70 |-> "U16E50", U16E71 |-> "U16E51",
     U16E72 |-> "U16E52", U16E73 |-> "U16E53", U16E74 |-> "U16E54", U16E75 |-> "U16E55",
     U16E76 |-> "U16E56", U16E77 |-> "U16E57", U16E78 |-> "U16E58", U16E79 |-> "U16E59",
     U16E7A |-> "U16E5A", U16E7B |-> "U16E5B", U16E7C |-> "U16E5C", U16E7D |-> "U16E5D",
     U16E7E |-> "U16E5E", U16E7F |-> "U16E5F", U1E922 |-> "U1E900", U1E923 |-> "U1E901",
     U1E924 |-> "U1E902", U1E925 |-> "U1E903", U1E926 |-> "U1E904", U1E927 |-> "U1E905",
     U1E928 |-> "U1E906", U1E929 |-> "U1E907", U1E92A |-> "U1E908", U1E92B |-> "U1E909",
     U1E92C |-> "U1E90A", U1E92D |-> "U1E90B", U1E92E |-> "U1E90C", U1E92F |-> "U1E90D",
     U1E930 |-> "U1E90E", U1E931 |-> "U1E90F", U1E932 |-> "U1E910", U1E933 |-> "U1E911",
     U1E934 |-> "U1E912", U1E935 |-> "U1E913", U1E936 |-> "U1E914", U1E937 |-> "U1E915",
     U1E938 |-> "U1E916", U1E939 |-> "U1E917", U1E93A |-> "U1E918", U1E93B |-> "U1E919",
     U1E93C |-> "U1E91A", U1E93D |-> "U1E91B", U1E93E |-> "U1E91C", U1E93F |-> "U1E91D",
     U1E940 |-> "U1E91E", U1E941 |-> "U1E91F", U1E942 |-> "U1E920", U1E943 |-> "U1E921"]

\* str.upper(): the characters whose uppercase is more than one character
UpperSpecial ==
    [U00DF |-> <<"S", "S">>, U0149 |-> <<"U02BC", "N">>, U01F0 |-> <<"J", "U030C">>,
     U0390 |-> <<"U0399", "U0308", "U0301">>, U03B0 |-> <<"U03A5", "U0308", "U0301">>,
     U0587 |-> <<"U0535", "U0552">>, U1E96 |-> <<"H", "U0331">>, U1E97 |-> <<"T", "U0308">>,
     U1E98 |-> <<"W", "U030A">>, U1E99 |-> <<"Y", "U030A">>, U1E9A |-> <<"A", "U02BE">>,
     U1F50 |-> <<"U03A5", "U0313">>, U1F52 |-> <<"U03A5", "U0313", "U0300">>,
     U1F54 |-> <<"U03A5", "U0313", "U0301">>, U1F56 |-> <<"U03A5", "U0313", "U0342">>,
     U1F80 |-> <<"U1F08", "U0399">>, U1F81 |-> <<"U1F09", "U0399">>,
     U1F82 |-> <<"U1F0A", "U0399">>, U1F83 |-> <<"U1F0B", "U0399">>,
     U1F84 |-> <<"U1F0C", "U0399">>, U1F85 |-> <<"U1F0D", "U0399">>,
     U1F86 |-> <<"U1F0E", "U0399">>, U1F87 |-> <<"U1F0F", "U0399">>,
     U1F88 |-> <<"U1F08", "U0399">>, U1F89 |-> <<"U1F09", "U0399">>,
     U1F8A |-> <<"U1F0A", "U0399">>, U1F8B |-> <<"U1F0B", "U0399">>,
     U1F8C |-> <<"U1F0C", "U0399">>, U1F8D |-> <<"U1F0D", "U0399">>,
     U1F8E |-> <<"U1F0E", "U0399">>, U1F8F |-> <<"U1F0F", "U0399">>,
     U1F90 |-> <<"U1F28", "U0399">>, U1F91 |-> <<"U1F29", "U0399">>,
     U1F92 |-> <<"U1F2A", "U0399">>, U1F93 |-> <<"U1F2B", "U0399">>,
     U1F94 |-> <<"U1F2C", "U0399">>, U1F95 |-> <<"U1F2D", "U0399">>,
     U1F96 |-> <<"U1F2E", "U0399">>, U1F97 |-> <<"U1F2F", "U0399">>,
     U1F98 |-> <<"U1F28", "U0399">>, U1F99 |-> <<"U1F29", "U0399">>,
     U1F9A |-> <<"U1F2A", "U0399">>, U1F9B |-> <<"U1F2B", "U0399">>,
     U1F9C |-> <<"U1F2C", "U0399">>, U1F9D |-> <<"U1F2D", "U0399">>,
     U1F9E |-> <<"U1F2E", "U0399">>, U1F9F |-> <<"U1F2F", "U0399">>,
     U1FA0 |-> <<"U1F68", "U0399">>, U1FA1 |-> <<"U1F69", "U0399">>,
     U1FA2 |-> <<"U1F6A", "U0399">>, U1FA3 |-> <<"U1F6B", "U0399">>,
     U1FA4 |-> <<"U1F6C", "U0399">>, U1FA5 |-> <<"U1F6D", "U0399">>,
     U1FA6 |-> <<"U1F6E", "U0399">>, U1FA7 |-> <<"U1F6F", "U0399">>,
     U1FA8 |-> <<"U1F68", "U0399">>, U1FA9 |-> <<"U1F69", "U0399">>,
     U1FAA |-> <<"U1F6A", "U0399">>, U1FAB |-> <<"U1F6B", "U0399">>,
     U1FAC |-> <<"U1F6C", "U0399">>, U1FAD |-> <<"U1F6D", "U0399">>,
     U1FAE |-> <<"U1F6E", "U0399">>, U1FAF |-> <<"U1F6F", "U0399">>,
     U1FB2 |-> <<"U1FBA", "U0399">>, U1FB3 |-> <<"U0391", "U0399">>,
     U1FB4 |-> <<"U0386", "U0399">>, U1FB6 |-> <<"U0391", "U0342">>,
     U1FB7 |-> <<"U0391", "U0342", "U0399">>, U1FBC |-> <<"U0391", "U0399">>,
     U1FC2 |-> <<"U1FCA", "U0399">>, U1FC3 |-> <<"U0397", "U0399">>,
     U1FC4 |-> <<"U0389", "U0399">>, U1FC6 |-> <<"U0397", "U0342">>,
     U1FC7 |-> <<"U0397", "U0342", "U0399">>, U1FCC |-> <<"U0397", "U0399">>,
     U1FD2 |-> <<"U0399", "U0308", "U0300">>, U1FD3 |-> <<"U0399", "U0308", "U0301">>,
     U1FD6 |-> <<"U0399", "U0342">>, U1FD7 |-> <<"U0399", "U0308", "U0342">>,
     U1FE2 |-> <<"U03A5", "U0308", "U0300">>, U1FE3 |-> <<"U03A5", "U0308", "U0301">>,
     U1FE4 |-> <<"U03A1", "U0313">>, U1FE6 |-> <<"U03A5", "U0342">>,
     U1FE7 |-> <<"U03A5", "U0308", "U0342">>, U1FF2 |-> <<"U1FFA", "U0399">>,
     U1FF3 |-> <<"U03A9", "U0399">>, U1FF4 |-> <<"U038F", "U0399">>,
     U1FF6 |-> <<"U03A9", "U0342">>, U1FF7 |-> <<"U03A9", "U0342", "U0399">>,
     U1FFC |-> <<"U03A9", "U0399">>, UFB00 |-> <<"F", "F">>, UFB01 |-> <<"F", "I">>,
     UFB02 |-> <<"F", "L">>, UFB03 |-> <<"F", "F", "I">>, UFB04 |-> <<"F", "F", "L">>,
     UFB05 |-> <<"S", "T">>, UFB06 |-> <<"S", "T">>, UFB13 |-> <<"U0544", "U0546">>,
     UFB14 |-> <<"U0544", "U0535">>, UFB15 |-> <<"U0544", "U053B">>,
     UFB16 |-> <<"U054E", "U0546">>, UFB17 |-> <<"U0544", "U053D">>]

\* c.upper(), as the sequence of its characters
UpperChar(c) ==
    IF c \in DOMAIN UpperTable THEN <<UpperTable[c]>>
    ELSE IF c \in DOMAIN UpperSpecial THEN UpperSpecial[c]
    ELSE <<c>>

RECURSIVE Upper(_)
Upper(s) == IF s = <<>> THEN <<>> ELSE UpperChar(s[1]) \o Upper(Tail(s))

\* the characters str.lower() skips when it looks for the letters around a
\* capital sigma (the Case_Ignorable property)
CaseIgnorable ==
    {"'", ".", ":", "^", "U0060", "U00A8", "U00AD", "U00AF", "U00B4", "U00B7", "U00B8", "U02B0",
     "U02B1", "U02B2", "U02B3", "U02B4", "U02B5", "U02B6", "U02B7", "U02B8", "U02B9", "U02BA",
     "U02BB", "U02BC", "U02BD", "U02BE", "U02BF", "U02C0", "U02C1", "U02C2", "U02C3", "U02C4",
     "U02C5", "U02C6", "U02C7", "U02C8", "U02C9", "U02CA", "U02CB", "U02CC", "U02CD", "U02CE",
     "U02CF", "U02D0", "U02D1", "U02D2", "U02D3", "U02D4", "U02D5", "U02D6", "U02D7", "U02D8",
     "U02D9", "U02DA", "U02DB", "U02DC", "U02DD", "U02DE", "U02DF", "U02E0", "U02E1", "U02E2",
     "U02E3", "U02E4", "U02E5", "U02E6", "U02E7", "U02E8", "U02E9", "U02EA", "U02EB", "U02EC",
     "U02ED", "U02EE", "U02EF", "U02F0", "U02F1", "U02F2", "U02F3", "U02F4", "U02F5", "U02F6",
     "U02F7", "U02F8", "U02F9", "U02FA", "U02FB", "U02FC", "U02FD", "U02FE", "U02FF", "U0300",
     "U0301", "U0302", "U0303", "U0304", "U0305", "U0306", "U0307", "U0308", "U0309", "U030A",
     "U030B", "U030C", "U030D", "U030E", "U030F", "U0310", "U0311", "U0312", "U0313", "U0314",
     "U0315", "U0316", "U0317", "U0318", "U0319", "U031A", "U031B", "U031C", "U031D", "U031E",
     "U031F", "U0320", "U0321", "U0322", "U0323", "U0324", "U0325", "U0326", "U0327", "U0328",
     "U0329", "U032A", "U032B", "U032C", "U032D", "U032E", "U032F", "U0330", "U0331", "U0332",
     "U0333", "U0334", "U0335", "U0336", "U0337", "U0338", "U0339", "U033A", "U033B", "U033C",
     "U033D", "U033E", "U033F", "U0340", "U0341", "U0342", "U0343", "U0344", "U0345", "U0346",
     "U0347", "U0348", "U0349", "U034A", "U034B", "U034C", "U034D", "U034E", "U034F", "U0350",
     "U0351", "U0352", "U0353", "U0354", "U0355", "U0356", "U0357", "U0358", "U0359", "U035A",
     "U035B", "U035C", "U035D", "U035E", "U035F", "U0360", "U0361", "U0362", "U0363", "U0364",
     "U0365", "U0366", "U0367", "U0368", "U0369", "U036A", "U036B", "U036C", "U036D", "U036E",
     "U036F", "U0374", "U0375", "U037A", "U0384", "U0385", "U0387", "U0483", "U0484", "U0485",
     "U0486", "U0487", "U0488", "U0489", "U0559", "U055F", "U0591", "U0592", "U0593", "U0594",
     "U0595", "U0596", "U0597", "U0598", "U0599", "U059A", "U059B", "U059C", "U059D", "U059E",
     "U059F", "U05A0", "U05A1", "U05A2", "U05A3", "U05A4", "U05A5", "U05A6", "U05A7", "U05A8",
     "U05A9", "U05AA", "U05AB", "U05AC", "U05AD", "U05AE", "U05AF", "U05B0", "U05B1", "U05B2",
     "U05B3", "U05B4", "U05B5", "U05B6", "U05B7", "U05B8", "U05B9", "U05BA", "U05BB", "U05BC",
     "U05BD", "U05BF", "U05C1", "U05C2", "U05C4", "U05C5", "U05C7", "U05F4", "U0600", "U0601",
     "U0602", "U0603", "U0604", "U0605", "U0610", "U0611", "U0612", "U0613", "U0614", "U0615",
     "U0616", "U0617", "U0618", "U0619", "U061A", "U061C", "U0640", "U064B", "U064C", "U064D",
     "U064E", "U064F", "U0650", "U0651", "U0652", "U0653", "U0654", "U0655", "U0656", "U0657",
     "U0658", "U0659", "U065A", "U065B", "U065C", "U065D", "U065E", "U065F", "U0670", "U06D6",
     "U06D7", "U06D8", "U06D9", "U06DA", "U06DB", "U06DC", "U06DD", "U06DF", "U06E0", "U06E1",
     "U06E2", "U06E3", "U06E4", "U06E5", "U06E6", "U06E7", "U06E8", "U06EA", "U06EB", "U06EC",
     "U06ED", "U070F", "U0711", "U0730", "U0731", "U0732", "U0733", "U0734", "U0735", "U0736",
     "U0737", "U0738", "U0739", "U073A", "U073B", "U073C", "U073D", "U073E", "U073F", "U0740",
     "U0741", "U0742", "U0743", "U0744", "U0745", "U0746", "U0747", "U0748", "U0749", "U074A",
     "U07A6", "U07A7", "U07A8", "U07A9", "U07AA", "U07AB", "U07AC", "U07AD", "U07AE", "U07AF",
     "U07B0", "U07EB", "U07EC", "U07ED", "U07EE", "U07EF", "U07F0", "U07F1", "U07F2", "U07F3",
     "U07F4", "U07F5", "U07FA", "U07FD", "U0816", "U0817", "U0818", "U0819", "U081A", "U081B",
     "U081C", "U081D", "U081E", "U081F", "U0820", "U0821", "U0822", "U0823", "U0824", "U0825",
     "U0826", "U0827", "U0828", "U0829", "U082A", "U082B", "U082C", "U082D", "U0859", "U085A",
     "U085B", "U0888", "U0890", "U0891", "U0898", "U0899", "U089A", "U089B", "U089C", "U089D",
     "U089E", "U089F", "U08C9", "U08CA", "U08CB", "U08CC", "U08CD", "U08CE", "U08CF", "U08D0",
     "U08D1", "U08D2", "U08D3", "U08D4", "U08D5", "U08D6", "U08D7", "U08D8", "U08D9", "U08DA",
     "U08DB", "U08DC", "U08DD", "U08DE", "U08DF", "U08E0", "U08E1", "U08E2", "U08E3", "U08E4",
     "U08E5", "U08E6", "U08E7", "U08E8", "U08E9", "U08EA", "U08EB", "U08EC", "U08ED", "U08EE",
     "U08EF", "U08F0", "U08F1", "U08F2", "U08F3", "U08F4", "U08F5", "U08F6", "U08F7", "U08F8",
     "U08F9", "U08FA", "U08FB", "U08FC", "U08FD", "U08FE", "U08FF", "U0900", "U0901", "U0902",
     "U093A", "U093C", "U0941", "U0942", "U0943", "U0944", "U0945", "U0946", "U0947", "U0948",
     "U094D", "U0951", "U0952", "U0953", "U0954", "U0955", "U0956", "U0957", "U0962", "U0963",
     "U0971", "U0981", "U09BC", "U09C1", "U09C2", "U09C3", "U09C4", "U09CD", "U09E2", "U09E3",
     "U09FE", "U0A01", "U0A02", "U0A3C", "U0A41", "U0A42", "U0A47", "U0A48", "U0A4B", "U0A4C",
     "U0A4D", "U0A51", "U0A70", "U0A71", "U0A75", "U0A81", "U0A82", "U0ABC", "U0AC1", "U0AC2",
     "U0AC3", "U0AC4", "U0AC5", "U0AC7", "U0AC8", "U0ACD", "U0AE2", "U0AE3", "U0AFA", "U0AFB",
     "U0AFC", "U0AFD", "U0AFE", "U0AFF", "U0B01", "U0B3C", "U0B3F", "U0B41", "U0B42", "U0B43",
     "U0B44", "U0B4D", "U0B55", "U0B56", "U0B62", "U0B63", "U0B82", "U0BC0", "U0BCD", "U0C00",
     "U0C04", "U0C3C", "U0C3E", "U0C3F", "U0C40", "U0C46", "U0C47", "U0C48", "U0C4A", "U0C4B",
     "U0C4C", "U0C4D", "U0C55", "U0C56", "U0C62", "U0C63", "U0C81", "U0CBC", "U0CBF", "U0CC6",
     "U0CCC", "U0CCD", "U0CE2", "U0CE3", "U0D00", "U0D01", "U0D3B", "U0D3C", "U0D41", "U0D42",
     "U0D43", "U0D44", "U0D4D", "U0D62", "U0D63", "U0D81", "U0DCA", "U0DD2", "U0DD3", "U0DD4",
     "U0DD6", "U0E31", "U0E34", "U0E35", "U0E36", "U0E37", "U0E38", "U0E39", "U0E3A", "U0E46",
     "U0E47", "U0E48", "U0E49", "U0E4A", "U0E4B", "U0E4C", "U0E4D", "U0E4E", "U0EB1", "U0EB4",
     "U0EB5", "U0EB6", "U0EB7", "U0EB8", "U0EB9", "U0EBA", "U0EBB", "U0EBC", "U0EC6", "U0EC8",
     "U0EC9", "U0ECA", "U0ECB", "U0ECC", "U0ECD", "U0F18", "U0F19", "U0F35", "U0F37", "U0F39",
     "U0F71", "U0F72", "U0F73", "U0F74", "U0F75", "U0F76", "U0F77", "U0F78", "U0F79", "U0F7A",
     "U0F7B", "U0F7C", "U0F7D", "U0F7E", "U0F80", "U0F81", "U0F82", "U0F83", "U0F84", "U0F86",
     "U0F87", "U0F8D", "U0F8E", "U0F8F", "U0F90", "U0F91", "U0F92", "U0F93", "U0F94", "U0F95",
     "U0F96", "U0F97", "U0F99", "U0F9A", "U0F9B", "U0F9C", "U0F9D", "U0F9E", "U0F9F", "U0FA0",
     "U0FA1", "U0FA2", "U0FA3", "U0FA4", "U0FA5", "U0FA6", "U0FA7", "U0FA8", "U0FA9", "U0FAA",
     "U0FAB", "U0FAC", "U0FAD", "U0FAE", "U0FAF", "U0FB0", "U0FB1", "U0FB2", "U0FB3", "U0FB4",
     "U0FB5", "U0FB6", "U0FB7", "U0FB8", "U0FB9", "U0FBA", "U0FBB", "U0FBC", "U0FC6", "U102D",
     "U102E", "U102F", "U1030", "U1032", "U1033", "U1034", "U1035", "U1036", "U1037", "U1039",
     "U103A", "U103D", "U103E", "U1058", "U1059", "U105E", "U105F", "U1060", "U1071", "U1072",
     "U1073", "U1074", "U1082", "U1085", "U1086", "U108D", "U109D", "U10FC", "U135D", "U135E",
     "U135F", "U1712", "U1713", "U1714", "U1732", "U1733", "U1752", "U1753", "U1772", "U1773",
     "U17B4", "U17B5", "U17B7", "U17B8", "U17B9", "U17BA", "U17BB", "U17BC", "U17BD", "U17C6",
     "U17C9", "U17CA", "U17CB", "U17CC", "U17CD", "U17CE", "U17CF", "U17D0", "U17D1", "U17D2",
     "U17D3", "U17D7", "U17DD", "U180B", "U180C", "U180D", "U180E", "U180F", "U1843", "U1885",
     "U1886", "U18A9", "U1920", "U1921", "U1922", "U1927", "U1928", "U1932", "U1939", "U193A",
     "U193B", "U1A17", "U1A18", "U1A1B", "U1A56", "U1A58", "U1A59", "U1A5A", "U1A5B", "U1A5C",
     "U1A5D", "U1A5E", "U1A60", "U1A62", "U1A65", "U1A66", "U1A67", "U1A68", "U1A69", "U1A6A",
     "U1A6B", "U1A6C", "U1A73", "U1A74", "U1A75", "U1A76", "U1A77", "U1A78", "U1A79", "U1A7A",
     "U1A7B", "U1A7C", "U1A7F", "U1AA7", "U1AB0", "U1AB1", "U1AB2", "U1AB3", "U1AB4", "U1AB5",
     "U1AB6", "U1AB7", "U1AB8", "U1AB9", "U1ABA", "U1ABB", "U1ABC", "U1ABD", "U1ABE", "U1ABF",
     "U1AC0", "U1AC1", "U1AC2", "U1AC3", "U1AC4", "U1AC5", "U1AC6", "U1AC7", "U1AC8", "U1AC9",
     "U1ACA", "U1ACB", "U1ACC", "U1ACD", "U1ACE", "U1B00", "U1B01", "U1B02", "U1B03", "U1B34",
     "U1B36", "U1B37", "U1B38", "U1B39", "U1B3A", "U1B3C", "U1B42", "U1B6B", "U1B6C", "U1B6D",
     "U1B6E", "U1B6F", "U1B70", "U1B71", "U1B72", "U1B73", "U1B80", "U1B81", "U1BA2", "U1BA3",
     "U1BA4", "U1BA5", "U1BA8", "U1BA9", "U1BAB", "U1BAC", "U1BAD", "U1BE6", "U1BE8", "U1BE9",
     "U1BED", "U1BEF", "U1BF0", "U1BF1", "U1C2C", "U1C2D", "U1C2E", "U1C2F", "U1C30", "U1C31",
     "U1C32", "U1C33", "U1C36", "U1C37", "U1C78", "U1C79", "U1C7A", "U1C7B", "U1C7C", "U1C7D",
     "U1CD0", "U1CD1", "U1CD2", "U1CD4", "U1CD5", "U1CD6", "U1CD7", "U1CD8", "U1CD9", "U1CDA",
     "U1CDB", "U1CDC", "U1CDD", "U1CDE", "U1CDF", "U1CE0", "U1CE2", "U1CE3", "U1CE4", "U1CE5",
     "U1CE6", "U1CE7", "U1CE8", "U1CED", "U1CF4", "U1CF8", "U1CF9", "U1D2C", "U1D2D", "U1D2E",
     "U1D2F", "U1D30", "U1D31", "U1D32", "U1D33", "U1D34", "U1D35", "U1D36", "U1D37", "U1D38",
     "U1D39", "U1D3A", "U1D3B", "U1D3C", "U1D3D", "U1D3E", "U1D3F", "U1D40", "U1D41", "U1D42",
     "U1D43", "U1D44", "U1D45", "U1D46", "U1D47", "U1D48", "U1D49", "U1D4A", "U1D4B", "U1D4C",
     "U1D4D", "U1D4E", "U1D4F", "U1D50", "U1D51", "U1D52", "U1D53", "U1D54", "U1D55", "U1D56",
     "U1D57", "U1D58", "U1D59", "U1D5A", "U1D5B", "U1D5C", "U1D5D", "U1D5E", "U1D5F", "U1D60",
     "U1D61", "U1D62", "U1D63", "U1D64", "U1D65", "U1D66", "U1D67", "U1D68", "U1D69", "U1D6A",
     "U1D78", "U1D9B", "U1D9C", "U1D9D", "U1D9E", "U1D9F", "U1DA0", "U1DA1", "U1DA2", "U1DA3",
     "U1DA4", "U1DA5", "U1DA6", "U1DA7", "U1DA8", "U1DA9", "U1DAA", "U1DAB", "U1DAC", "U1DAD",
     "U1DAE", "U1DAF", "U1DB0", "U1DB1", "U1DB2", "U1DB3", "U1DB4", "U1DB5", "U1DB6", "U1DB7",
     "U1DB8", "U1DB9", "U1DBA", "U1DBB", "U1DBC", "U1DBD", "U1DBE", "U1DBF", "U1DC0", "U1DC1",
     "U1DC2", "U1DC3", "U1DC4", "U1DC5", "U1DC6", "U1DC7", "U1DC8", "U1DC9", "U1DCA", "U1DCB",
     "U1DCC", "U1DCD", "U1DCE", "U1DCF", "U1DD0", "U1DD1", "U1DD2", "U1DD3", "U1DD4", "U1DD5",
     "U1DD6", "U1DD7", "U1DD8", "U1DD9", "U1DDA", "U1DDB", "U1DDC", "U1DDD", "U1DDE", "U1DDF",
     "U1DE0", "U1DE1", "U1DE2", "U1DE3", "U1DE4", "U1DE5", "U1DE6", "U1DE7", "U1DE8", "U1DE9",
     "U1DEA", "U1DEB", "U1DEC", "U1DED", "U1DEE", "U1DEF", "U1DF0", "U1DF1", "U1DF2", "U1DF3",
     "U1DF4", "U1DF5", "U1DF6", "U1DF7", "U1DF8", "U1DF9", "U1DFA", "U1DFB", "U1DFC", "U1DFD",
     "U1DFE", "U1DFF", "U1FBD", "U1FBF", "U1FC0", "U1FC1", "U1FCD", "U1FCE", "U1FCF", "U1FDD",
     "U1FDE", "U1FDF", "U1FED", "U1FEE", "U1FEF", "U1FFD", "U1FFE", "U200B", "U200C", "U200D",
     "U200E", "U200F", "U2018", "U2019", "U2024", "U2027", "U202A", "U202B", "U202C", "U202D",
     "U202E", "U2060", "U2061", "U2062", "U2063", "U2064", "U2066", "U2067", "U2068", "U2069",
     "U206A", "U206B", "U206C", "U206D", "U206E", "U206F", "U2071", "U207F", "U2090", "U2091",
     "U2092", "U2093", "U2094", "U2095", "U2096", "U2097", "U2098", "U2099", "U209A", "U209B",
     "U209C", "U20D0", "U20D1", "U20D2", "U20D3", "U20D4", "U20D5", "U20D6", "U20D7", "U20D8",
     "U20D9", "U20DA", "U20DB", "U20DC", "U20DD", "U20DE", "U20DF", "U20E0", "U20E1", "U20E2",
     "U20E3", "U20E4", "U20E5", "U20E6", "U20E7", "U20E8", "U20E9", "U20EA", "U20EB", "U20EC",
     "U20ED", "U20EE", "U20EF", "U20F0", "U2C7C", "U2C7D", "U2CEF", "U2CF0", "U2CF1", "U2D6F",
     "U2D7F", "U2DE0", "U2DE1", "U2DE2", "U2DE3", "U2DE4", "U2DE5", "U2DE6", "U2DE7", "U2DE8",
     "U2DE9", "U2DEA", "U2DEB", "U2DEC", "U2DED", "U2DEE", "U2DEF", "U2DF0", "U2DF1", "U2DF2",
     "U2DF3", "U2DF4", "U2DF5", "U2DF6", "U2DF7", "U2DF8", "U2DF9", "U2DFA", "U2DFB", "U2DFC",
     "U2DFD", "U2DFE", "U2DFF", "U2E2F", "U3005", "U302A", "U302B", "U302C", "U302D", "U3031",
     "U3032", "U3033", "U3034", "U3035", "U303B", "U3099", "U309A", "U309B", "U309C", "U309D",
     "U309E", "U30FC", "U30FD", "U30FE", "UA015", "UA4F8", "UA4F9", "UA4FA", "UA4FB", "UA4FC",
     "UA4FD", "UA60C", "UA66F", "UA670", "UA671", "UA672", "UA674", "UA675", "UA676", "UA677",
     "UA678", "UA679", "UA67A", "UA67B", "UA67C", "UA67D", "UA67F", "UA69C", "UA69D", "UA69E",
     "UA69F", "UA6F0", "UA6F1", "UA700", "UA701", "UA702", "UA703", "UA704", "UA705", "UA706",
     "UA707", "UA708", "UA709", "UA70A", "UA70B", "UA70C", "UA70D", "UA70E", "UA70F", "UA710",
     "UA711", "UA712", "UA713", "UA714", "UA715", "UA716", "UA717", "UA718", "UA719", "UA71A",
     "UA71B", "UA71C", "UA71D", "UA71E", "UA71F", "UA720", "UA721", "UA770", "UA788", "UA789",
     "UA78A", "UA7F2", "UA7F3", "UA7F4", "UA7F8", "UA7F9", "UA802", "UA806", "UA80B", "UA825",
     "UA826", "UA82C", "UA8C4", "UA8C5", "UA8E0", "UA8E1", "UA8E2", "UA8E3", "UA8E4", "UA8E5",
     "UA8E6", "UA8E7", "UA8E8", "UA8E9", "UA8EA", "UA8EB", "UA8EC", "UA8ED", "UA8EE", "UA8EF",
     "UA8F0", "UA8F1", "UA8FF", "UA926", "UA927", "UA928", "UA929", "UA92A", "UA92B", "UA92C",
     "UA92D", "UA947", "UA948", "UA949", "UA94A", "UA94B", "UA94C", "UA94D", "UA94E", "UA94F",
     "UA950", "UA951", "UA980", "UA981", "UA982", "UA9B3", "UA9B6", "UA9B7", "UA9B8", "UA9B9",
     "UA9BC", "UA9BD", "UA9CF", "UA9E5", "UA9E6", "UAA29", "UAA2A", "UAA2B", "UAA2C", "UAA2D",
     "UAA2E", "UAA31", "UAA32", "UAA35", "UAA36", "UAA43", "UAA4C", "UAA70", "UAA7C", "UAAB0",
     "UAAB2", "UAAB3", "UAAB4", "UAAB7", "UAAB8", "UAABE", "UAABF", "UAAC1", "UAADD", "UAAEC",
     "UAAED", "UAAF3", "UAAF4", "UAAF6", "UAB5B", "UAB5C", "UAB5D", "UAB5E", "UAB5F", "UAB69",
     "UAB6A", "UAB6B", "UABE5", "UABE8", "UABED", "UFB1E", "UFBB2", "UFBB3", "UFBB4", "UFBB5",
     "UFBB6", "UFBB7", "UFBB8", "UFBB9", "UFBBA", "UFBBB", "UFBBC", "UFBBD", "UFBBE", "UFBBF",
     "UFBC0", "UFBC1", "UFBC2", "UFE00", "UFE01", "UFE02", "UFE03", "UFE04", "UFE05", "UFE06",
     "UFE07", "UFE08", "UFE09", "UFE0A", "UFE0B", "UFE0C", "UFE0D", "UFE0E", "UFE0F", "UFE13",
     "UFE20", "UFE21", "UFE22", "UFE23", "UFE24", "UFE25", "UFE26", "UFE27", "UFE28", "UFE29",
     "UFE2A", "UFE2B", "UFE2C", "UFE2D", "UFE2E", "UFE2F", "UFE52", "UFE55", "UFEFF", "UFF07",
     "UFF0E", "UFF1A", "UFF3E", "UFF40", "UFF70", "UFF9E", "UFF9F", "UFFE3", "UFFF9", "UFFFA",
     "UFFFB", "U101FD", "U102E0", "U10376", "U10377", "U10378", "U10379", "U1037A", "U10780",
     "U10781", "U10782", "U10783", "U10784", "U10785", "U10787", "U10788", "U10789", "U1078A",
     "U1078B", "U1078C", "U1078D", "U1078E", "U1078F", "U10790", "U10791", "U10792", "U10793",
     "U10794", "U10795", "U10796", "U10797", "U10798", "U10799", "U1079A", "U1079B", "U1079C",
     "U1079D", "U1079E", "U1079F", "U107A0", "U107A1", "U107A2", "U107A3", "U107A4", "U107A5",
     "U107A6", "U107A7", "U107A8", "U107A9", "U107AA", "U107AB", "U107AC", "U107AD", "U107AE",
     "U107AF", "U107B0", "U107B2", "U107B3", "U107B4", "U107B5", "U107B6", "U107B7", "U107B8",
     "U107B9", "U107BA", "U10A01", "U10A02", "U10A03", "U10A05", "U10A06", "U10A0C", "U10A0D",
     "U10A0E", "U10A0F", "U10A38", "U10A39", "U10A3A", "U10A3F", "U10AE5", "U10AE6", "U10D24",
     "U10D25", "U10D26", "U10D27", "U10EAB", "U10EAC", "U10F46", "U10F47", "U10F48", "U10F49",
     "U10F4A", "U10F4B", "U10F4C", "U10F4D", "U10F4E", "U10F4F", "U10F50", "U10F82", "U10F83",
     "U10F84", "U10F85", "U11001", "U11038", "U11039", "U1103A", "U1103B", "U1103C", "U1103D",
     "U1103E", "U1103F", "U11040", "U11041", "U11042", "U11043", "U11044", "U11045", "U11046",
     "U11070", "U11073", "U11074", "U1107F", "U11080", "U11081", "U110B3", "U110B4", "U110B5",
     "U110B6", "U110B9", "U110BA", "U110BD", "U110C2", "U110CD", "U11100", "U11101", "U11102",
     "U11127", "U11128", "U11129", "U1112A", "U1112B", "U1112D", "U1112E", "U1112F", "U11130",
     "U11131", "U11132", "U11133", "U11134", "U11173", "U11180", "U11181", "U111B6", "U111B7",
     "U111B8", "U111B9", "U111BA", "U111BB", "U111BC", "U111BD", "U111BE", "U111C9", "U111CA",
     "U111CB", "U111CC", "U111CF", "U1122F", "U11230", "U11231", "U11234", "U11236", "U11237",
     "U1123E", "U112DF", "U112E3", "U112E4", "U112E5", "U112E6", "U112E7", "U112E8", "U112E9",
     "U112EA", "U11300", "U11301", "U1133B", "U1133C", "U11340", "U11366", "U11367", "U11368",
     "U11369", "U1136A", "U1136B", "U1136C", "U11370", "U11371", "U11372", "U11373", "U11374",
     "U11438", "U11439", "U1143A", "U1143B", "U1143C", "U1143D", "U1143E", "U1143F", "U11442",
     "U11443", "U11444", "U11446", "U1145E", "U114B3", "U114B4", "U114B5", "U114B6", "U114B7",
     "U114B8", "U114BA", "U114BF", "U114C0", "U114C2", "U114C3", "U115B2", "U115B3", "U115B4",
     "U115B5", "U115BC", "U115BD", "U115BF", "U115C0", "U115DC", "U115DD", "U11633", "U11634",
     "U11635", "U11636", "U11637", "U11638", "U11639", "U1163A", "U1163D", "U1163F", "U11640",
     "U116AB", "U116AD", "U116B0", "U116B1", "U116B2", "U116B3", "U116B4", "U116B5", "U116B7",
     "U1171D", "U1171E", "U1171F", "U11722", "U11723", "U11724", "U11725", "U11727", "U11728",
     "U11729", "U1172A", "U1172B", "U1182F", "U11830", "U11831", "U11832", "U11833", "U11834",
     "U11835", "U11836", "U11837", "U11839", "U1183A", "U1193B", "U1193C", "U1193E", "U11943",
     "U119D4", "U119D5", "U119D6", "U119D7", "U119DA", "U119DB", "U119E0", "U11A01", "U11A02",
     "U11A03", "U11A04", "U11A05", "U11A06", "U11A07", "U11A08", "U11A09", "U11A0A", "U11A33",
     "U11A34", "U11A35", "U11A36", "U11A37", "U11A38", "U11A3B", "U11A3C", "U11A3D", "U11A3E",
     "U11A47", "U11A51", "U11A52", "U11A53", "U11A54", "U11A55", "U11A56", "U11A59", "U11A5A",
     "U11A5B", "U11A8A", "U11A8B", "U11A8C", "U11A8D", "U11A8E", "U11A8F", "U11A90", "U11A91",
     "U11A92", "U11A93", "U11A94", "U11A95", "U11A96", "U11A98", "U11A99", "U11C30", "U11C31",
     "U11C32", "U11C33", "U11C34", "U11C35", "U11C36", "U11C38", "U11C39", "U11C3A", "U11C3B",
     "U11C3C", "U11C3D", "U11C3F", "U11C92", "U11C93", "U11C94", "U11C95", "U11C96", "U11C97",
     "U11C98", "U11C99", "U11C9A", "U11C9B", "U11C9C", "U11C9D", "U11C9E", "U11C9F", "U11CA0",
     "U11CA1", "U11CA2", "U11CA3", "U11CA4", "U11CA5", "U11CA6", "U11CA7", "U11CAA", "U11CAB",
     "U11CAC", "U11CAD", "U11CAE", "U11CAF", "U11CB0", "U11CB2", "U11CB3", "U11CB5", "U11CB6",
     "U11D31", "U11D32", "U11D33", "U11D34", "U11D35", "U11D36", "U11D3A", "U11D3C", "U11D3D",
     "U11D3F", "U11D40", "U11D41", "U11D42", "U11D43", "U11D44", "U11D45", "U11D47", "U11D90",
     "U11D91", "U11D95", "U11D97", "U11EF3", "U11EF4", "U13430", "U13431", "U13432", "U13433",
     "U13434", "U13435", "U13436", "U13437", "U13438", "U16AF0", "U16AF1", "U16AF2", "U16AF3",
     "U16AF4", "U16B30", "U16B31", "U16B32", "U16B33", "U16B34", "U16B35", "U16B36", "U16B40",
     "U16B41", "U16B42", "U16B43", "U16F4F", "U16F8F", "U16F90", "U16F91", "U16F92", "U16F93",
     "U16F94", "U16F95", "U16F96", "U16F97", "U16F98", "U16F99", "U16F9A", "U16F9B", "U16F9C",
     "U16F9D", "U16F9E", "U16F9F", "U16FE0", "U16FE1", "U16FE3", "U16FE4", "U1AFF0", "U1AFF1",
     "U1AFF2", "U1AFF3", "U1AFF5", "U1AFF6", "U1AFF7", "U1AFF8", "U1AFF9", "U1AFFA", "U1AFFB",
     "U1AFFD", "U1AFFE", "U1BC9D", "U1BC9E", "U1BCA0", "U1BCA1", "U1BCA2", "U1BCA3", "U1CF00",
     "U1CF01", "U1CF02", "U1CF03", "U1CF04", "U1CF05", "U1CF06", "U1CF07", "U1CF08", "U1CF09",
     "U1CF0A", "U1CF0B", "U1CF0C", "U1CF0D", "U1CF0E", "U1CF0F", "U1CF10", "U1CF11", "U1CF12",
     "U1CF13", "U1CF14", "U1CF15", "U1CF16", "U1CF17", "U1CF18", "U1CF19", "U1CF1A", "U1CF1B",
     "U1CF1C", "U1CF1D", "U1CF1E", "U1CF1F", "U1CF20", "U1CF21", "U1CF22", "U1CF23", "U1CF24",
     "U1CF25", "U1CF26", "U1CF27", "U1CF28", "U1CF29", "U1CF2A", "U1CF2B", "U1CF2C", "U1CF2D",
     "U1CF30", "U1CF31", "U1CF32", "U1CF33", "U1CF34", "U1CF35", "U1CF36", "U1CF37", "U1CF38",
     "U1CF39", "U1CF3A", "U1CF3B", "U1CF3C", "U1CF3D", "U1CF3E", "U1CF3F", "U1CF40", "U1CF41",
     "U1CF42", "U1CF43", "U1CF44", "U1CF45", "U1CF46", "U1D167", "U1D168", "U1D169", "U1D173",
     "U1D174", "U1D175", "U1D176", "U1D177", "U1D178", "U1D179", "U1D17A", "U1D17B", "U1D17C",
     "U1D17D", "U1D17E", "U1D17F", "U1D180", "U1D181", "U1D182", "U1D185", "U1D186", "U1D187",
     "U1D188", "U1D189", "U1D18A", "U1D18B", "U1D1AA", "U1D1AB", "U1D1AC", "U1D1AD", "U1D242",
     "U1D243", "U1D244", "U1DA00", "U1DA01", "U1DA02", "U1DA03", "U1DA04", "U1DA05", "U1DA06",
     "U1DA07", "U1DA08", "U1DA09", "U1DA0A", "U1DA0B", "U1DA0C", "U1DA0D", "U1DA0E", "U1DA0F",
     "U1DA10", "U1DA11", "U1DA12", "U1DA13", "U1DA14", "U1DA15", "U1DA16", "U1DA17", "U1DA18",
     "U1DA19", "U1DA1A", "U1DA1B", "U1DA1C", "U1DA1D", "U1DA1E", "U1DA1F", "U1DA20", "U1DA21",
     "U1DA22", "U1DA23", "U1DA24", "U1DA25", "U1DA26", "U1DA27", "U1DA28", "U1DA29", "U1DA2A",
     "U1DA2B", "U1DA2C", "U1DA2D", "U1DA2E", "U1DA2F", "U1DA30", "U1DA31", "U1DA32", "U1DA33",
     "U1DA34", "U1DA35", "U1DA36", "U1DA3B", "U1DA3C", "U1DA3D", "U1DA3E", "U1DA3F", "U1DA40",
     "U1DA41", "U1DA42", "U1DA43", "U1DA44", "U1DA45", "U1DA46", "U1DA47", "U1DA48", "U1DA49",
     "U1DA4A", "U1DA4B", "U1DA4C", "U1DA4D", "U1DA4E", "U1DA4F", "U1DA50", "U1DA51", "U1DA52",
     "U1DA53", "U1DA54", "U1DA55", "U1DA56", "U1DA57", "U1DA58", "U1DA59", "U1DA5A", "U1DA5B",
     "U1DA5C", "U1DA5D", "U1DA5E", "U1DA5F", "U1DA60", "U1DA61", "U1DA62", "U1DA63", "U1DA64",
     "U1DA65", "U1DA66", "U1DA67", "U1DA68", "U1DA69", "U1DA6A", "U1DA6B", "U1DA6C", "U1DA75",
     "U1DA84", "U1DA9B", "U1DA9C", "U1DA9D", "U1DA9E", "U1DA9F", "U1DAA1", "U1DAA2", "U1DAA3",
     "U1DAA4", "U1DAA5", "U1DAA6", "U1DAA7", "U1DAA8", "U1DAA9", "U1DAAA", "U1DAAB", "U1DAAC",
     "U1DAAD", "U1DAAE", "U1DAAF", "U1E000", "U1E001", "U1E002", "U1E003", "U1E004", "U1E005",
     "U1E006", "U1E008", "U1E009", "U1E00A", "U1E00B", "U1E00C", "U1E00D", "U1E00E", "U1E00F",
     "U1E010", "U1E011", "U1E012", "U1E013", "U1E014", "U1E015", "U1E016", "U1E017", "U1E018",
     "U1E01B", "U1E01C", "U1E01D", "U1E01E", "U1E01F", "U1E020", "U1E021", "U1E023", "U1E024",
     "U1E026", "U1E027", "U1E028", "U1E029", "U1E02A", "U1E130", "U1E131", "U1E132", "U1E133",
     "U1E134", "U1E135", "U1E136", "U1E137", "U1E138", "U1E139", "U1E13A", "U1E13B", "U1E13C",
     "U1E13D", "U1E2AE", "U1E2EC", "U1E2ED", "U1E2EE", "U1E2EF", "U1E8D0", "U1E8D1", "U1E8D2",
     "U1E8D3", "U1E8D4", "U1E8D5", "U1E8D6", "U1E944", "U1E945", "U1E946", "U1E947", "U1E948",
     "U1E949", "U1E94A", "U1E94B", "U1F3FB", "U1F3FC", "U1F3FD", "U1F3FE", "U1F3FF", "UE0001",
     "UE0020", "UE0021", "UE0022", "UE0023", "UE0024", "UE0025", "UE0026", "UE0027", "UE0028",
     "UE0029", "UE002A", "UE002B", "UE002C", "UE002D", "UE002E", "UE002F", "UE0030", "UE0031",
     "UE0032", "UE0033", "UE0034", "UE0035", "UE0036", "UE0037", "UE0038", "UE0039", "UE003A",
     "UE003B", "UE003C", "UE003D", "UE003E", "UE003F", "UE0040", "UE0041", "UE0042", "UE0043",
     "UE0044", "UE0045", "UE0046", "UE0047", "UE0048", "UE0049", "UE004A", "UE004B", "UE004C",
     "UE004D", "UE004E", "UE004F", "UE0050", "UE0051", "UE0052", "UE0053", "UE0054", "UE0055",
     "UE0056", "UE0057", "UE0058", "UE0059", "UE005A", "UE005B", "UE005C", "UE005D", "UE005E",
     "UE005F", "UE0060", "UE0061", "UE0062", "UE0063", "UE0064", "UE0065", "UE0066", "UE0067",
     "UE0068", "UE0069", "UE006A", "UE006B", "UE006C", "UE006D", "UE006E", "UE006F", "UE0070",
     "UE0071", "UE0072", "UE0073", "UE0074", "UE0075", "UE0076", "UE0077", "UE0078", "UE0079",
     "UE007A", "UE007B", "UE007C", "UE007D", "UE007E", "UE007F", "UE0100", "UE0101", "UE0102",
     "UE0103", "UE0104", "UE0105", "UE0106", "UE0107", "UE0108", "UE0109", "UE010A", "UE010B",
     "UE010C", "UE010D", "UE010E", "UE010F", "UE0110", "UE0111", "UE0112", "UE0113", "UE0114",
     "UE0115", "UE0116", "UE0117", "UE0118", "UE0119", "UE011A", "UE011B", "UE011C", "UE011D",
     "UE011E", "UE011F", "UE0120", "UE0121", "UE0122", "UE0123", "UE0124", "UE0125", "UE0126",
     "UE0127", "UE0128", "UE0129", "UE012A", "UE012B", "UE012C", "UE012D", "UE012E", "UE012F",
     "UE0130", "UE0131", "UE0132", "UE0133", "UE0134", "UE0135", "UE0136", "UE0137", "UE0138",
     "UE0139", "UE013A", "UE013B", "UE013C", "UE013D", "UE013E", "UE013F", "UE0140", "UE0141",
     "UE0142", "UE0143", "UE0144", "UE0145", "UE0146", "UE0147", "UE0148", "UE0149", "UE014A",
     "UE014B", "UE014C", "UE014D", "UE014E", "UE014F", "UE0150", "UE0151", "UE0152", "UE0153",
     "UE0154", "UE0155", "UE0156", "UE0157", "UE0158", "UE0159", "UE015A", "UE015B", "UE015C",
     "UE015D", "UE015E", "UE015F", "UE0160", "UE0161", "UE0162", "UE0163", "UE0164", "UE0165",
     "UE0166", "UE0167", "UE0168", "UE0169", "UE016A", "UE016B", "UE016C", "UE016D", "UE016E",
     "UE016F", "UE0170", "UE0171", "UE0172", "UE0173", "UE0174", "UE0175", "UE0176", "UE0177",
     "UE0178", "UE0179", "UE017A", "UE017B", "UE017C", "UE017D", "UE017E", "UE017F", "UE0180",
     "UE0181", "UE0182", "UE0183", "UE0184", "UE0185", "UE0186", "UE0187", "UE0188", "UE0189",
     "UE018A", "UE018B", "UE018C", "UE018D", "UE018E", "UE018F", "UE0190", "UE0191", "UE0192",
     "UE0193", "UE0194", "UE0195", "UE0196", "UE0197", "UE0198", "UE0199", "UE019A", "UE019B",
     "UE019C", "UE019D", "UE019E", "UE019F", "UE01A0", "UE01A1", "UE01A2", "UE01A3", "UE01A4",
     "UE01A5", "UE01A6", "UE01A7", "UE01A8", "UE01A9", "UE01AA", "UE01AB", "UE01AC", "UE01AD",
     "UE01AE", "UE01AF", "UE01B0", "UE01B1", "UE01B2", "UE01B3", "UE01B4", "UE01B5", "UE01B6",
     "UE01B7", "UE01B8", "UE01B9", "UE01BA", "UE01BB", "UE01BC", "UE01BD", "UE01BE", "UE01BF",
     "UE01C0", "UE01C1", "UE01C2", "UE01C3", "UE01C4", "UE01C5", "UE01C6", "UE01C7", "UE01C8",
     "UE01C9", "UE01CA", "UE01CB", "UE01CC", "UE01CD", "UE01CE", "UE01CF", "UE01D0", "UE01D1",
     "UE01D2", "UE01D3", "UE01D4", "UE01D5", "UE01D6", "UE01D7", "UE01D8", "UE01D9", "UE01DA",
     "UE01DB", "UE01DC", "UE01DD", "UE01DE", "UE01DF", "UE01E0", "UE01E1", "UE01E2", "UE01E3",
     "UE01E4", "UE01E5", "UE01E6", "UE01E7", "UE01E8", "UE01E9", "UE01EA", "UE01EB", "UE01EC",
     "UE01ED", "UE01EE", "UE01EF"}

\* the letters with a case (the Cased property) that are neither skipped nor
\* changed by lower() or upper()
OtherCased ==
    {"U00AA", "U00BA", "U0138", "U018D", "U019B", "U01AA", "U01AB", "U01BA", "U01BE", "U0221",
     "U0234", "U0235", "U0236", "U0237", "U0238", "U0239", "U0255", "U0258", "U025A", "U025D",
     "U025E", "U025F", "U0262", "U0264", "U0267", "U026D", "U026E", "U0270", "U0273", "U0274",
     "U0276", "U0277", "U0278", "U0279", "U027A", "U027B", "U027C", "U027E", "U027F", "U0281",
     "U0284", "U0285", "U0286", "U028D", "U028E", "U028F", "U0290", "U0291", "U0293", "U0295",
     "U0296", "U0297", "U0298", "U0299", "U029A", "U029B", "U029C", "U029F", "U02A0", "U02A1",
     "U02A2", "U02A3", "U02A4", "U02A5", "U02A6", "U02A7", "U02A8", "U02A9", "U02AA", "U02AB",
     "U02AC", "U02AD", "U02AE", "U02AF", "U03D2", "U03D3", "U03D4", "U03FC", "U0560", "U0588",
     "U1D00", "U1D01", "U1D02", "U1D03", "U1D04", "U1D05", "U1D06", "U1D07", "U1D08", "U1D09",
     "U1D0A", "U1D0B", "U1D0C", "U1D0D", "U1D0E", "U1D0F", "U1D10", "U1D11", "U1D12", "U1D13",
     "U1D14", "U1D15", "U1D16", "U1D17", "U1D18", "U1D19", "U1D1A", "U1D1B", "U1D1C", "U1D1D",
     "U1D1E", "U1D1F", "U1D20", "U1D21", "U1D22", "U1D23", "U1D24", "U1D25", "U1D26", "U1D27",
     "U1D28", "U1D29", "U1D2A", "U1D2B", "U1D6B", "U1D6C", "U1D6D", "U1D6E", "U1D6F", "U1D70",
     "U1D71", "U1D72", "U1D73", "U1D74", "U1D75", "U1D76", "U1D77", "U1D7A", "U1D7B", "U1D7C",
     "U1D7E", "U1D7F", "U1D80", "U1D81", "U1D82", "U1D83", "U1D84", "U1D85", "U1D86", "U1D87",
     "U1D88", "U1D89", "U1D8A", "U1D8B", "U1D8C", "U1D8D", "U1D8F", "U1D90", "U1D91", "U1D92",
     "U1D93", "U1D94", "U1D95", "U1D96", "U1D97", "U1D98", "U1D99", "U1D9A", "U1E9C", "U1E9D",
     "U1E9F", "U2102", "U2107", "U210A", "U210B", "U210C", "U210D", "U210E", "U210F", "U2110",
     "U2111", "U2112", "U2113", "U2115", "U2119", "U211A", "U211B", "U211C", "U211D", "U2124",
     "U2128", "U212C", "U212D", "U212F", "U2130", "U2131", "U2133", "U2134", "U2139", "U213C",
     "U213D", "U213E", "U213F", "U2145", "U2146", "U2147", "U2148", "U2149", "U2C71", "U2C74",
     "U2C77", "U2C78", "U2C79", "U2C7A", "U2C7B", "U2CE4", "UA730", "UA731", "UA771", "UA772",
     "UA773", "UA774", "UA775", "UA776", "UA777", "UA778", "UA78E", "UA795", "UA7AF", "UA7D3",
     "UA7D5", "UA7FA", "UAB30", "UAB31", "UAB32", "UAB33", "UAB34", "UAB35", "UAB36", "UAB37",
     "UAB38", "UAB39", "UAB3A", "UAB3B", "UAB3C", "UAB3D", "UAB3E", "UAB3F", "UAB40", "UAB41",
     "UAB42", "UAB43", "UAB44", "UAB45", "UAB46", "UAB47", "UAB48", "UAB49", "UAB4A", "UAB4B",
     "UAB4C", "UAB4D", "UAB4E", "UAB4F", "UAB50", "UAB51", "UAB52", "UAB54", "UAB55", "UAB56",
     "UAB57", "UAB58", "UAB59", "UAB5A", "UAB60", "UAB61", "UAB62", "UAB63", "UAB64", "UAB65",
     "UAB66", "UAB67", "UAB68", "U1D400", "U1D401", "U1D402", "U1D403", "U1D404", "U1D405",
     "U1D406", "U1D407", "U1D408", "U1D409", "U1D40A", "U1D40B", "U1D40C", "U1D40D", "U1D40E",
     "U1D40F", "U1D410", "U1D411", "U1D412", "U1D413", "U1D414", "U1D415", "U1D416", "U1D417",
     "U1D418", "U1D419", "U1D41A", "U1D41B", "U1D41C", "U1D41D", "U1D41E", "U1D41F", "U1D420",
     "U1D421", "U1D422", "U1D423", "U1D424", "U1D425", "U1D426", "U1D427", "U1D428", "U1D429",
     "U1D42A", "U1D42B", "U1D42C", "U1D42D", "U1D42E", "U1D42F", "U1D430", "U1D431", "U1D432",
     "U1D433", "U1D434", "U1D435", "U1D436", "U1D437", "U1D438", "U1D439", "U1D43A", "U1D43B",
     "U1D43C", "U1D43D", "U1D43E", "U1D43F", "U1D440", "U1D441", "U1D442", "U1D443", "U1D444",
     "U1D445", "U1D446", "U1D447", "U1D448", "U1D449", "U1D44A", "U1D44B", "U1D44C", "U1D44D",
     "U1D44E", "U1D44F", "U1D450", "U1D451", "U1D452", "U1D453", "U1D454", "U1D456", "U1D457",
     "U1D458", "U1D459", "U1D45A", "U1D45B", "U1D45C", "U1D45D", "U1D45E", "U1D45F", "U1D460",
     "U1D461", "U1D462", "U1D463", "U1D464", "U1D465", "U1D466", "U1D467", "U1D468", "U1D469",
     "U1D46A", "U1D46B", "U1D46C", "U1D46D", "U1D46E", "U1D46F", "U1D470", "U1D471", "U1D472",
     "U1D473", "U1D474", "U1D475", "U1D476", "U1D477", "U1D478", "U1D479", "U1D47A", "U1D47B",
     "U1D47C", "U1D47D", "U1D47E", "U1D47F", "U1D480", "U1D481", "U1D482", "U1D483", "U1D484",
     "U1D485", "U1D486", "U1D487", "U1D488", "U1D489", "U1D48A", "U1D48B", "U1D48C", "U1D48D",
     "U1D48E", "U1D48F", "U1D490", "U1D491", "U1D492", "U1D493", "U1D494", "U1D495", "U1D496",
     "U1D497", "U1D498", "U1D499", "U1D49A", "U1D49B", "U1D49C", "U1D49E", "U1D49F", "U1D4A2",
     "U1D4A5", "U1D4A6", "U1D4A9", "U1D4AA", "U1D4AB", "U1D4AC", "U1D4AE", "U1D4AF", "U1D4B0",
     "U1D4B1", "U1D4B2", "U1D4B3", "U1D4B4", "U1D4B5", "U1D4B6", "U1D4B7", "U1D4B8", "U1D4B9",
     "U1D4BB", "U1D4BD", "U1D4BE", "U1D4BF", "U1D4C0", "U1D4C1", "U1D4C2", "U1D4C3", "U1D4C5",
     "U1D4C6", "U1D4C7", "U1D4C8", "U1D4C9", "U1D4CA", "U1D4CB", "U1D4CC", "U1D4CD", "U1D4CE",
     "U1D4CF", "U1D4D0", "U1D4D1", "U1D4D2", "U1D4D3", "U1D4D4", "U1D4D5", "U1D4D6", "U1D4D7",
     "U1D4D8", "U1D4D9", "U1D4DA", "U1D4DB", "U1D4DC", "U1D4DD", "U1D4DE", "U1D4DF", "U1D4E0",
     "U1D4E1", "U1D4E2", "U1D4E3", "U1D4E4", "U1D4E5", "U1D4E6", "U1D4E7", "U1D4E8", "U1D4E9",
     "U1D4EA", "U1D4EB", "U1D4EC", "U1D4ED", "U1D4EE", "U1D4EF", "U1D4F0", "U1D4F1", "U1D4F2",
     "U1D4F3", "U1D4F4", "U1D4F5", "U1D4F6", "U1D4F7", "U1D4F8", "U1D4F9", "U1D4FA", "U1D4FB",
     "U1D4FC", "U1D4FD", "U1D4FE", "U1D4FF", "U1D500", "U1D501", "U1D502", "U1D503", "U1D504",
     "U1D505", "U1D507", "U1D508", "U1D509", "U1D50A", "U1D50D", "U1D50E", "U1D50F", "U1D510",
     "U1D511", "U1D512", "U1D513", "U1D514", "U1D516", "U1D517", "U1D518", "U1D519", "U1D51A",
     "U1D51B", "U1D51C", "U1D51E", "U1D51F", "U1D520", "U1D521", "U1D522", "U1D523", "U1D524",
     "U1D525", "U1D526", "U1D527", "U1D528", "U1D529", "U1D52A", "U1D52B", "U1D52C", "U1D52D",
     "U1D52E", "U1D52F", "U1D530", "U1D531", "U1D532", "U1D533", "U1D534", "U1D535", "U1D536",
     "U1D537", "U1D538", "U1D539", "U1D53B", "U1D53C", "U1D53D", "U1D53E", "U1D540", "U1D541",
     "U1D542", "U1D543", "U1D544", "U1D546", "U1D54A", "U1D54B", "U1D54C", "U1D54D", "U1D54E",
     "U1D54F", "U1D550", "U1D552", "U1D553", "U1D554", "U1D555", "U1D556", "U1D557", "U1D558",
     "U1D559", "U1D55A", "U1D55B", "U1D55C", "U1D55D", "U1D55E", "U1D55F", "U1D560", "U1D561",
     "U1D562", "U1D563", "U1D564", "U1D565", "U1D566", "U1D567", "U1D568", "U1D569", "U1D56A",
     "U1D56B", "U1D56C", "U1D56D", "U1D56E", "U1D56F", "U1D570", "U1D571", "U1D572", "U1D573",
     "U1D574", "U1D575", "U1D576", "U1D577", "U1D578", "U1D579", "U1D57A", "U1D57B", "U1D57C",
     "U1D57D", "U1D57E", "U1D57F", "U1D580", "U1D581", "U1D582", "U1D583", "U1D584", "U1D585",
     "U1D586", "U1D587", "U1D588", "U1D589", "U1D58A", "U1D58B", "U1D58C", "U1D58D", "U1D58E",
     "U1D58F", "U1D590", "U1D591", "U1D592", "U1D593", "U1D594", "U1D595", "U1D596", "U1D597",
     "U1D598", "U1D599", "U1D59A", "U1D59B", "U1D59C", "U1D59D", "U1D59E", "U1D59F", "U1D5A0",
     "U1D5A1", "U1D5A2", "U1D5A3", "U1D5A4", "U1D5A5", "U1D5A6", "U1D5A7", "U1D5A8", "U1D5A9",
     "U1D5AA", "U1D5AB", "U1D5AC", "U1D5AD", "U1D5AE", "U1D5AF", "U1D5B0", "U1D5B1", "U1D5B2",
     "U1D5B3", "U1D5B4", "U1D5B5", "U1D5B6", "U1D5B7", "U1D5B8", "U1D5B9", "U1D5BA", "U1D5BB",
     "U1D5BC", "U1D5BD", "U1D5BE", "U1D5BF", "U1D5C0", "U1D5C1", "U1D5C2", "U1D5C3", "U1D5C4",
     "U1D5C5", "U1D5C6", "U1D5C7", "U1D5C8", "U1D5C9", "U1D5CA", "U1D5CB", "U1D5CC", "U1D5CD",
     "U1D5CE", "U1D5CF", "U1D5D0", "U1D5D1", "U1D5D2", "U1D5D3", "U1D5D4", "U1D5D5", "U1D5D6",
     "U1D5D7", "U1D5D8", "U1D5D9", "U1D5DA", "U1D5DB", "U1D5DC", "U1D5DD", "U1D5DE", "U1D5DF",
     "U1D5E0", "U1D5E1", "U1D5E2", "U1D5E3", "U1D5E4", "U1D5E5", "U1D5E6", "U1D5E7", "U1D5E8",
     "U1D5E9", "U1D5EA", "U1D5EB", "U1D5EC", "U1D5ED", "U1D5EE", "U1D5EF", "U1D5F0", "U1D5F1",
     "U1D5F2", "U1D5F3", "U1D5F4", "U1D5F5", "U1D5F6", "U1D5F7", "U1D5F8", "U1D5F9", "U1D5FA",
     "U1D5FB", "U1D5FC", "U1D5FD", "U1D5FE", "U1D5FF", "U1D600", "U1D601", "U1D602", "U1D603",
     "U1D604", "U1D605", "U1D606", "U1D607", "U1D608", "U1D609", "U1D60A", "U1D60B", "U1D60C",
     "U1D60D", "U1D60E", "U1D60F", "U1D610", "U1D611", "U1D612", "U1D613", "U1D614", "U1D615",
     "U1D616", "U1D617", "U1D618", "U1D619", "U1D61A", "U1D61B", "U1D61C", "U1D61D", "U1D61E",
     "U1D61F", "U1D620", "U1D621", "U1D622", "U1D623", "U1D624", "U1D625", "U1D626", "U1D627",
     "U1D628", "U1D629", "U1D62A", "U1D62B", "U1D62C", "U1D62D", "U1D62E", "U1D62F", "U1D630",
     "U1D631", "U1D632", "U1D633", "U1D634", "U1D635", "U1D636", "U1D637", "U1D638", "U1D639",
     "U1D63A", "U1D63B", "U1D63C", "U1D63D", "U1D63E", "U1D63F", "U1D640", "U1D641", "U1D642",
     "U1D643", "U1D644", "U1D645", "U1D646", "U1D647", "U1D648", "U1D649", "U1D64A", "U1D64B",
     "U1D64C", "U1D64D", "U1D64E", "U1D64F", "U1D650", "U1D651", "U1D652", "U1D653", "U1D654",
     "U1D655", "U1D656", "U1D657", "U1D658", "U1D659", "U1D65A", "U1D65B", "U1D65C", "U1D65D",
     "U1D65E", "U1D65F", "U1D660", "U1D661", "U1D662", "U1D663", "U1D664", "U1D665", "U1D666",
     "U1D667", "U1D668", "U1D669", "U1D66A", "U1D66B", "U1D66C", "U1D66D", "U1D66E", "U1D66F",
     "U1D670", "U1D671", "U1D672", "U1D673", "U1D674", "U1D675", "U1D676", "U1D677", "U1D678",
     "U1D679", "U1D67A", "U1D67B", "U1D67C", "U1D67D", "U1D67E", "U1D67F", "U1D680", "U1D681",
     "U1D682", "U1D683", "U1D684", "U1D685", "U1D686", "U1D687", "U1D688", "U1D689", "U1D68A",
     "U1D68B", "U1D68C", "U1D68D", "U1D68E", "U1D68F", "U1D690", "U1D691", "U1D692", "U1D693",
     "U1D694", "U1D695", "U1D696", "U1D697", "U1D698", "U1D699", "U1D69A", "U1D69B", "U1D69C",
     "U1D69D", "U1D69E", "U1D69F", "U1D6A0", "U1D6A1", "U1D6A2", "U1D6A3", "U1D6A4", "U1D6A5",
     "U1D6A8", "U1D6A9", "U1D6AA", "U1D6AB", "U1D6AC", "U1D6AD", "U1D6AE", "U1D6AF", "U1D6B0",
     "U1D6B1", "U1D6B2", "U1D6B3", "U1D6B4", "U1D6B5", "U1D6B6", "U1D6B7", "U1D6B8", "U1D6B9",
     "U1D6BA", "U1D6BB", "U1D6BC", "U1D6BD", "U1D6BE", "U1D6BF", "U1D6C0", "U1D6C2", "U1D6C3",
     "U1D6C4", "U1D6C5", "U1D6C6", "U1D6C7", "U1D6C8", "U1D6C9", "U1D6CA", "U1D6CB", "U1D6CC",
     "U1D6CD", "U1D6CE", "U1D6CF", "U1D6D0", "U1D6D1", "U1D6D2", "U1D6D3", "U1D6D4", "U1D6D5",
     "U1D6D6", "U1D6D7", "U1D6D8", "U1D6D9", "U1D6DA", "U1D6DC", "U1D6DD", "U1D6DE", "U1D6DF",
     "U1D6E0", "U1D6E1", "U1D6E2", "U1D6E3", "U1D6E4", "U1D6E5", "U1D6E6", "U1D6E7", "U1D6E8",
     "U1D6E9", "U1D6EA", "U1D6EB", "U1D6EC", "U1D6ED", "U1D6EE", "U1D6EF", "U1D6F0", "U1D6F1",
     "U1D6F2", "U1D6F3", "U1D6F4", "U1D6F5", "U1D6F6", "U1D6F7", "U1D6F8", "U1D6F9", "U1D6FA",
     "U1D6FC", "U1D6FD", "U1D6FE", "U1D6FF", "U1D700", "U1D701", "U1D702", "U1D703", "U1D704",
     "U1D705", "U1D706", "U1D707", "U1D708", "U1D709", "U1D70A", "U1D70B", "U1D70C", "U1D70D",
     "U1D70E", "U1D70F", "U1D710", "U1D711", "U1D712", "U1D713", "U1D714", "U1D716", "U1D717",
     "U1D718", "U1D719", "U1D71A", "U1D71B", "U1D71C", "U1D71D", "U1D71E", "U1D71F", "U1D720",
     "U1D721", "U1D722", "U1D723", "U1D724", "U1D725", "U1D726", "U1D727", "U1D728", "U1D729",
     "U1D72A", "U1D72B", "U1D72C", "U1D72D", "U1D72E", "U1D72F", "U1D730", "U1D731", "U1D732",
     "U1D733", "U1D734", "U1D736", "U1D737", "U1D738", "U1D739", "U1D73A", "U1D73B", "U1D73C",
     "U1D73D", "U1D73E", "U1D73F", "U1D740", "U1D741", "U1D742", "U1D743", "U1D744", "U1D745",
     "U1D746", "U1D747", "U1D748", "U1D749", "U1D74A", "U1D74B", "U1D74C", "U1D74D", "U1D74E",
     "U1D750", "U1D751", "U1D752", "U1D753", "U1D754", "U1D755", "U1D756", "U1D757", "U1D758",
     "U1D759", "U1D75A", "U1D75B", "U1D75C", "U1D75D", "U1D75E", "U1D75F", "U1D760", "U1D761",
     "U1D762", "U1D763", "U1D764", "U1D765", "U1D766", "U1D767", "U1D768", "U1D769", "U1D76A",
     "U1D76B", "U1D76C", "U1D76D", "U1D76E", "U1D770", "U1D771", "U1D772", "U1D773", "U1D774",
     "U1D775", "U1D776", "U1D777", "U1D778", "U1D779", "U1D77A", "U1D77B", "U1D77C", "U1D77D",
     "U1D77E", "U1D77F", "U1D780", "U1D781", "U1D782", "U1D783", "U1D784", "U1D785", "U1D786",
     "U1D787", "U1D788", "U1D78A", "U1D78B", "U1D78C", "U1D78D", "U1D78E", "U1D78F", "U1D790",
     "U1D791", "U1D792", "U1D793", "U1D794", "U1D795", "U1D796", "U1D797", "U1D798", "U1D799",
     "U1D79A", "U1D79B", "U1D79C", "U1D79D", "U1D79E", "U1D79F", "U1D7A0", "U1D7A1", "U1D7A2",
     "U1D7A3", "U1D7A4", "U1D7A5", "U1D7A6", "U1D7A7", "U1D7A8", "U1D7AA", "U1D7AB", "U1D7AC",
     "U1D7AD", "U1D7AE", "U1D7AF", "U1D7B0", "U1D7B1", "U1D7B2", "U1D7B3", "U1D7B4", "U1D7B5",
     "U1D7B6", "U1D7B7", "U1D7B8", "U1D7B9", "U1D7BA", "U1D7BB", "U1D7BC", "U1D7BD", "U1D7BE",
     "U1D7BF", "U1D7C0", "U1D7C1", "U1D7C2", "U1D7C4", "U1D7C5", "U1D7C6", "U1D7C7", "U1D7C8",
     "U1D7C9", "U1D7CA", "U1D7CB", "U1DF00", "U1DF01", "U1DF02", "U1DF03", "U1DF04", "U1DF05",
     "U1DF06", "U1DF07", "U1DF08", "U1DF09", "U1DF0B", "U1DF0C", "U1DF0D", "U1DF0E", "U1DF0F",
     "U1DF10", "U1DF11", "U1DF12", "U1DF13", "U1DF14", "U1DF15", "U1DF16", "U1DF17", "U1DF18",
     "U1DF19", "U1DF1A", "U1DF1B", "U1DF1C", "U1DF1D", "U1DF1E", "U1F130", "U1F131", "U1F132",
     "U1F133", "U1F134", "U1F135", "U1F136", "U1F137", "U1F138", "U1F139", "U1F13A", "U1F13B",
     "U1F13C", "U1F13D", "U1F13E", "U1F13F", "U1F140", "U1F141", "U1F142", "U1F143", "U1F144",
     "U1F145", "U1F146", "U1F147", "U1F148", "U1F149", "U1F150", "U1F151", "U1F152", "U1F153",
     "U1F154", "U1F155", "U1F156", "U1F157", "U1F158", "U1F159", "U1F15A", "U1F15B", "U1F15C",
     "U1F15D", "U1F15E", "U1F15F", "U1F160", "U1F161", "U1F162", "U1F163", "U1F164", "U1F165",
     "U1F166", "U1F167", "U1F168", "U1F169", "U1F170", "U1F171", "U1F172", "U1F173", "U1F174",
     "U1F175", "U1F176", "U1F177", "U1F178", "U1F179", "U1F17A", "U1F17B", "U1F17C", "U1F17D",
     "U1F17E", "U1F17F", "U1F180", "U1F181", "U1F182", "U1F183", "U1F184", "U1F185", "U1F186",
     "U1F187", "U1F188", "U1F189"}

Cased(c) ==
    \/ c \in DOMAIN LowerTable \/ c \in DOMAIN LowerSpecial
    \/ c \in DOMAIN UpperTable \/ c \in DOMAIN UpperSpecial
    \/ c \in OtherCased

\* the capital sigma at s[i] ends a word: the nearest character before it that
\* is not skipped is a cased letter, and the nearest after it is not
FinalSigma(s, i) ==
    LET before == {j \in 1..(i - 1) : s[j] \notin CaseIgnorable}
        after == {j \in (i + 1)..Len(s) : s[j] \notin CaseIgnorable}
    IN  /\ before # {}
        /\ Cased(s[CHOOSE j \in before : \A h \in before : h <= j])
        /\ after = {} \/ ~Cased(s[CHOOSE j \in after : \A h \in after : j <= h])

\* s.lower()
RECURSIVE LowerRange(_, _, _)
LowerRange(s, lo, hi) ==
    IF lo > hi THEN <<>>
    ELSE IF lo = hi
    THEN (IF s[lo] = "U03A3" /\ FinalSigma(s, lo) THEN <<"U03C2">> ELSE LowerChar(s[lo]))
    ELSE LowerRange(s, lo, (lo + hi) \div 2) \o LowerRange(s, (lo + hi) \div 2 + 1, hi)

Lower(s) == LowerRange(s, 1, Len(s))

\* s.rstrip(chars): drop trailing characters that are in chars
RECURSIVE RStripChars(_, _)
RStripChars(s, chars) ==
    IF s # <<>> /\ s[Len(s)] \in chars
    THEN RStripChars(SubSeq(s, 1, Len(s) - 1), chars)
    ELSE s

RECURSIVE LStripChars(_, _)
LStripChars(s, chars) ==
    IF s # <<>> /\ s[1] \in chars THEN LStripChars(Tail(s), chars) ELSE s

\* s.strip(): leading and trailing whitespace dropped
Strip(s) == LStripChars(RStripChars(s, Whitespace), Whitespace)

\* s.replace(c, '')
RemoveChar(s, c) == SelectSeq(s, LAMBDA x : x # c)

\* s.replace(c, r) for single characters c and r
ReplaceChar(s, c, r) == [i \in 1..Len(s) |-> IF s[i] = c THEN r ELSE s[i]]

\* sub in s
StartsWithAt(s, sub, i) ==
    /\ i + Len(sub) - 1 <= Len(s)
    /\ \A k \in 1..Len(sub) : s[i + k - 1] = sub[k]

Contains(s, sub) == \E i \in 1..(Len(s) + 1) : StartsWithAt(s, sub, i)

\* s.split(): the maximal runs of non-whitespace characters
RECURSIVE SplitFrom(_, _, _)
SplitFrom(s, i, cur) ==
    IF i > Len(s)
    THEN IF cur = <<>> THEN <<>> ELSE <<cur>>
    ELSE IF IsSpace(s[i])
         THEN IF cur = <<>> THEN SplitFrom(s, i + 1, <<>>)
              ELSE <<cur>> \o SplitFrom(s, i + 1, <<>>)
         ELSE SplitFrom(s, i + 1, Append(cur, s[i]))

Split(s) == SplitFrom(s, 1, <<>>)

\* ' '.join(parts)
RECURSIVE Join(_)
Join(parts) ==
    IF parts = <<>> THEN <<>>
    ELSE IF Len(parts) = 1 THEN parts[1]
    ELSE parts[1] \o <<" ">> \o Join(Tail(parts))

\* seq[::-1]
Reverse(s) == [i \in 1..Len(s) |-> s[Len(s) + 1 - i]]

\* seq[-n:] for n >= 0 (seq[-0:] is the whole sequence)
LastN(s, n) ==
    IF n = 0 \/ n >= Len(s) THEN s ELSE SubSeq(s, Len(s) - n + 1, Len(s))

Min(a, b) == IF a <= b THEN a ELSE b
Abs(a) == IF a < 0 THEN -a ELSE a

----------------------------------------------------------------------------
(* float(text): Python's float() on a str.  The text is stripped of the    *)
(* whitespace float() knows, an underscore may stand between two digits,   *)
(* and what is left is [sign] nan | inf | infinity (in any case) or        *)
(* [sign] digits [. digits] [e [sign] digits] with a digit in the mantissa *)
(* and the digits of any script; anything else is a ValueError.            *)

\* float() turns the non-ASCII whitespace into spaces and strips the ASCII
\* whitespace \t \n \v \f \r and space: the separators U+001C..U+001F stay
FloatSpace == Whitespace \ {"U001C", "U001D", "U001E", "U001F"}

Zeros == DigitsByValue[1]

RECURSIVE DigitsVal(_)
DigitsVal(s) ==
    IF s = <<>> THEN 0
    ELSE 10 * DigitsVal(SubSeq(s, 1, Len(s) - 1)) + DigitVal(s[Len(s)])

AllDigits(s) == \A i \in 1..Len(s) : s[i] \in Digit

RECURSIVE Pow10(_)
Pow10(d) == IF d = 0 THEN 1 ELSE 10 * Pow10(d - 1)

\* The decimals at which float() stops rounding to a finite, non-zero double,
\* as their digits: inf is 2^1024 - 2^970 = 1.797693134862315807...e308, half
\* way from the largest double to 2^1024 (309 digits), and zero is
\* 2^-1075 = 2.470328229206232720...e-324, half the smallest double
\* (752 digits).  A decimal on a bound rounds to even: to inf, and to 0.0.
RoundingBounds ==
    [inf |->
        <<"1", "7", "9", "7", "6", "9", "3", "1", "3", "4", "8", "6", "2", "3", "1", "5", "8", "0", "7", "9",
        "3", "7", "2", "8", "9", "7", "1", "4", "0", "5", "3", "0", "3", "4", "1", "5", "0", "7", "9", "9",
        "3", "4", "1", "3", "2", "7", "1", "0", "0", "3", "7", "8", "2", "6", "9", "3", "6", "1", "7", "3",
        "7", "7", "8", "9", "8", "0", "4", "4", "4", "9", "6", "8", "2", "9", "2", "7", "6", "4", "7", "5",
        "0", "9", "4", "6", "6", "4", "9", "0", "1", "7", "9", "7", "7", "5", "8", "7", "2", "0", "7", "0",
        "9", "6", "3", "3", "0", "2", "8", "6", "4", "1", "6", "6", "9", "2", "8", "8", "7", "9", "1", "0",
        "9", "4", "6", "5", "5", "5", "5", "4", "7", "8", "5", "1", "9", "4", "0", "4", "0", "2", "6", "3",
        "0", "6", "5", "7", "4", "8", "8", "6", "7", "1", "5", "0", "5", "8", "2", "0", "6", "8", "1", "9",
        "0", "8", "9", "0", "2", "0", "0", "0", "7", "0", "8", "3", "8", "3", "6", "7", "6", "2", "7", "3",
        "8", "5", "4", "8", "4", "5", "8", "1", "7", "7", "1", "1", "5", "3", "1", "7", "6", "4", "4", "7",
        "5", "7", "3", "0", "2", "7", "0", "0", "6", "9", "8", "5", "5", "5", "7", "1", "3", "6", "6", "9",
        "5", "9", "6", "2", "2", "8", "4", "2", "9", "1", "4", "8", "1", "9", "8", "6", "0", "8", "3", "4",
        "9", "3", "6", "4", "7", "5", "2", "9", "2", "7", "1", "9", "0", "7", "4", "1", "6", "8", "4", "4",
        "4", "3", "6", "5", "5", "1", "0", "7", "0", "4", "3", "4", "2", "7", "1", "1", "5", "5", "9", "6",
        "9", "9", "5", "0", "8", "0", "9", "3", "0", "4", "2", "8", "8", "0", "1", "7", "7", "9", "0", "4",
        "1", "7", "4", "4", "9", "7", "7", "9", "2">>,
     zero |->
        <<"2", "4", "7", "0", "3", "2", "8", "2", "2", "9", "2", "0", "6", "2", "3", "2", "7", "2", "0", "8",
        "8", "2", "8", "4", "3", "9", "6", "4", "3", "4", "1", "1", "0", "6", "8", "6", "1", "8", "2", "5",
        "2", "9", "9", "0", "1", "3", "0", "7", "1", "6", "2", "3", "8", "2", "2", "1", "2", "7", "9", "2",
        "8", "4", "1", "2", "5", "0", "3", "3", "7", "7", "5", "3", "6", "3", "5", "1", "0", "4", "3", "7",
        "5", "9", "3", "2", "6", "4", "9", "9", "1", "8", "1", "8", "0", "8", "1", "7", "9", "9", "6", "1",
        "8", "9", "8", "9", "8", "2", "8", "2", "3", "4", "7", "7", "2", "2", "8", "5", "8", "8", "6", "5",
        "4", "6", "3", "3", "2", "8", "3", "5", "5", "1", "7", "7", "9", "6", "9", "8", "9", "8", "1", "9",
        "9", "3", "8", "7", "3", "9", "8", "0", "0", "5", "3", "9", "0", "9", "3", "9", "0", "6", "3", "1",
        "5", "0", "3", "5", "6", "5", "9", "5", "1", "5", "5", "7", "0", "2", "2", "6", "3", "9", "2", "2",
        "9", "0", "8", "5", "8", "3", "9", "2", "4", "4", "9", "1", "0", "5", "1", "8", "4", "4", "3", "5",
        "9", "3", "1", "8", "0", "2", "8", "4", "9", "9", "3", "6", "5", "3", "6", "1", "5", "2", "5", "0",
        "0", "3", "1", "9", "3", "7", "0", "4", "5", "7", "6", "7", "8", "2", "4", "9", "2", "1", "9", "3",
        "6", "5", "6", "2", "3", "6", "6", "9", "8", "6", "3", "6", "5", "8", "4", "8", "0", "7", "5", "7",
        "0", "0", "1", "5", "8", "5", "7", "6", "9", "2", "6", "9", "9", "0", "3", "7", "0", "6", "3", "1",
        "1", "9", "2", "8", "2", "7", "9", "5", "5", "8", "5", "5", "1", "3", "3", "2", "9", "2", "7", "8",
        "3", "4", "3", "3", "8", "4", "0", "9", "3", "5", "1", "9", "7", "8", "0", "1", "5", "5", "3", "1",
        "2", "4", "6", "5", "9", "7", "2", "6", "3", "5", "7", "9", "5", "7", "4", "6", "2", "2", "7", "6",
        "6", "4", "6", "5", "2", "7", "2", "8", "2", "7", "2", "2", "0", "0", "5", "6", "3", "7", "4", "0",
        "0", "6", "4", "8", "5", "4", "9", "9", "9", "7", "7", "0", "9", "6", "5", "9", "9", "4", "7", "0",
        "4", "5", "4", "0", "2", "0", "8", "2", "8", "1", "6", "6", "2", "2", "6", "2", "3", "7", "8", "5",
        "7", "3", "9", "3", "4", "5", "0", "7", "3", "6", "3", "3", "9", "0", "0", "7", "9", "6", "7", "7",
        "6", "1", "9", "3", "0", "5", "7", "7", "5", "0", "6", "7", "4", "0", "1", "7", "6", "3", "2", "4",
        "6", "7", "3", "6", "0", "0", "9", "6", "8", "9", "5", "1", "3", "4", "0", "5", "3", "5", "5", "3",
        "7", "4", "5", "8", "5", "1", "6", "6", "6", "1", "1", "3", "4", "2", "2", "3", "7", "6", "6", "6",
        "7", "8", "6", "0", "4", "1", "6", "2", "1", "5", "9", "6", "8", "0", "4", "6", "1", "9", "1", "4",
        "4", "6", "7", "2", "9", "1", "8", "4", "0", "3", "0", "0", "5", "3", "0", "0", "5", "7", "5", "3",
        "0", "8", "4", "9", "0", "4", "8", "7", "6", "5", "3", "9", "1", "7", "1", "1", "3", "8", "6", "5",
        "9", "1", "6", "4", "6", "2", "3", "9", "5", "2", "4", "9", "1", "2", "6", "2", "3", "6", "5", "3",
        "8", "8", "1", "8", "7", "9", "6", "3", "6", "2", "3", "9", "3", "7", "3", "2", "8", "0", "4", "2",
        "3", "8", "9", "1", "0", "1", "8", "6", "7", "2", "3", "4", "8", "4", "9", "7", "6", "6", "8", "2",
        "3", "5", "0", "8", "9", "8", "6", "3", "3", "8", "8", "5", "8", "7", "9", "2", "5", "6", "2", "8",
        "3", "0", "2", "7", "5", "5", "9", "9", "5", "6", "5", "7", "5", "2", "4", "4", "5", "5", "5", "0",
        "7", "2", "5", "5", "1", "8", "9", "3", "1", "3", "6", "9", "0", "8", "3", "6", "2", "5", "4", "7",
        "7", "9", "1", "8", "6", "9", "4", "8", "6", "6", "7", "9", "9", "4", "9", "6", "8", "3", "2", "4",
        "0", "4", "9", "7", "0", "5", "8", "2", "1", "0", "2", "8", "5", "1", "3", "1", "8", "5", "4", "5",
        "1", "3", "9", "6", "2", "1", "3", "8", "3", "7", "7", "2", "2", "8", "2", "6", "1", "4", "5", "4",
        "3", "7", "6", "9", "3", "4", "1", "2", "5", "3", "2", "0", "9", "8", "5", "9", "1", "3", "2", "7",
        "6", "6", "7", "2", "3", "6", "3", "2", "8", "1", "2", "5">>]

\* -1, 0 or 1 as the digits a write a number below, equal to or above the one
\* the digits b write, both read as 0.d1d2d3...
DigitsCmp(a, b) ==
    LET at(s, i) == IF i <= Len(s) THEN DigitVal(s[i]) ELSE 0
        diff == {i \in 1..(IF Len(a) >= Len(b) THEN Len(a) ELSE Len(b)) : at(a, i) # at(b, i)}
    IN  IF diff = {} THEN 0
        ELSE LET i == CHOOSE x \in diff : \A y \in diff : x <= y
             IN  IF at(a, i) > at(b, i) THEN 1 ELSE -1

\* sig is the digits of the decimal without leading or trailing zeros and s10
\* the power of ten of its first digit
TooBig(sig, s10) == s10 > 308 \/ (s10 = 308 /\ DigitsCmp(sig, RoundingBounds.inf) >= 0)

TooSmall(sig, s10) == s10 < -324 \/ (s10 = -324 /\ DigitsCmp(sig, RoundingBounds.zero) <= 0)

\* the float nearest sig * 10^e; below the normal range, and with more digits
\* than a double holds, the decimal stands for the double nearest to it
Magnitude(sig, e) ==
    IF TooBig(sig, Len(sig) - 1 + e) THEN PyInf
    ELSE IF TooSmall(sig, Len(sig) - 1 + e) THEN PyFloat(0, 0)
    ELSE PyFloat(DigitsVal(sig), -e)

\* the float nearest digits * 10^e
FloatOf(digits, e) ==
    LET sig == RStripChars(digits, Zeros)
    IN  IF sig = <<>> THEN PyFloat(0, 0)
        ELSE Magnitude(LStripChars(sig, Zeros), e + Len(digits) - Len(sig))

\* digits [. digits] with at least one digit
ParseMantissa(s) ==
    LET dots == {i \in 1..Len(s) : s[i] = "."}
        p == IF dots = {} THEN Len(s) + 1 ELSE CHOOSE i \in dots : \A h \in dots : i <= h
        ip == SubSeq(s, 1, p - 1)
        fp == SubSeq(s, p + 1, Len(s))
    IN  IF AllDigits(ip) /\ AllDigits(fp) /\ Len(ip) + Len(fp) > 0
        THEN [ok |-> TRUE, digits |-> ip \o fp, frac |-> Len(fp)]
        ELSE [ok |-> FALSE]

\* [sign] digits after the e; an exponent of more than four digits is beyond
\* every float either way and counts as 99999
ExponentDigits(neg, ds) ==
    LET sig == LStripChars(ds, Zeros)
        mag == IF Len(sig) > 4 THEN 99999 ELSE DigitsVal(sig)
    IN  IF ds = <<>> \/ ~AllDigits(ds) THEN [ok |-> FALSE]
        ELSE [ok |-> TRUE, val |-> IF neg THEN -mag ELSE mag]

ParseExponent(s) ==
    ExponentDigits(s # <<>> /\ s[1] = "-",
                   IF s # <<>> /\ s[1] \in {"-", "+"} THEN Tail(s) ELSE s)

Scaled(m, x) ==
    IF m.ok /\ x.ok THEN [ok |-> TRUE, val |-> FloatOf(m.digits, x.val - m.frac)]
    ELSE [ok |-> FALSE]

\* mantissa [e exponent]
ParseDecimal(t, marks) ==
    IF marks = {} THEN Scaled(ParseMantissa(t), [ok |-> TRUE, val |-> 0])
    ELSE LET p == CHOOSE i \in marks : \A h \in marks : i <= h
         IN  Scaled(ParseMantissa(SubSeq(t, 1, p - 1)),
                    ParseExponent(SubSeq(t, p + 1, Len(t))))

NanText == <<"n", "a", "n">>
InfTexts == {<<"i", "n", "f">>, <<"i", "n", "f", "i", "n", "i", "t", "y">>}

ParseNumber(t) ==
    IF Lower(t) = NanText THEN [ok |-> TRUE, val |-> PyNan]
    ELSE IF Lower(t) \in InfTexts THEN [ok |-> TRUE, val |-> PyInf]
    ELSE ParseDecimal(t, {i \in 1..Len(t) : t[i] \in {"e", "E"}})

\* an underscore is allowed only between two digits
UnderscoresOk(s) ==
    \A i \in 1..Len(s) :
        s[i] = "_" => (i > 1 /\ i < Len(s) /\ s[i - 1] \in Digit /\ s[i + 1] \in Digit)

ParseUnsigned(s) ==
    IF UnderscoresOk(s) THEN ParseNumber(RemoveChar(s, "_")) ELSE [ok |-> FALSE]

Negate(val) ==
    CASE val.t = "nan" -> PyNan
      [] val.t = "inf" -> PyNegInf
      [] val.t = "float" -> IF val.m = 0 THEN PyNegZero ELSE PyFloat(-val.m, val.d)

\* the sign applied to what ParseUnsigned found
Signed(neg, u) ==
    IF ~u.ok THEN [ok |-> FALSE]
    ELSE [ok |-> TRUE, val |-> IF neg THEN Negate(u.val) ELSE u.val]

ParseStripped(s) ==
    Signed(s # <<>> /\ s[1] = "-",
           ParseUnsigned(IF s # <<>> /\ s[1] \in {"-", "+"} THEN Tail(s) ELSE s))

\* float(text); [ok |-> FALSE] is the ValueError float() raises
ParseFloat(text) == ParseStripped(LStripChars(RStripChars(text, FloatSpace), FloatSpace))

\* int(x) of a finite float: truncation toward zero
Trunc(x) ==
    IF x.d <= 0 THEN x.m * Pow10(-x.d)
    ELSE IF x.d > 9 THEN 0
    ELSE IF x.m >= 0 THEN x.m \div Pow10(x.d) ELSE -((-x.m) \div Pow10(x.d))

----------------------------------------------------------------------------
(* get_earnings: market cap (lines 97-130) *)

MarketCapText == <<"M", "a", "r", "k", "e", "t", " ", "C", "a", "p">>
CrText == <<"C", "r">>
RsDotText == <<"R", "s", ".">>
RupeeText == <<"INR">>

\* the five patterns of line 107, each as: literal prefix, then \s*, then the
\* group ([\d,]+), then, for the first three, \s*Cr
patterns ==
    << [prefix |-> RupeeText, cr |-> TRUE],
       [prefix |-> RsDotText, cr |-> TRUE],
       [prefix |-> <<>>, cr |-> TRUE],
       [prefix |-> RupeeText, cr |-> FALSE],
       [prefix |-> RsDotText, cr |-> FALSE] >>

RECURSIVE SkipSpaces(_, _)
SkipSpaces(s, i) ==
    IF i <= Len(s) /\ IsSpace(s[i]) THEN SkipSpaces(s, i + 1) ELSE i

RECURSIVE RunEnd(_, _)
\* the index after the maximal run of [\d,] starting at i
RunEnd(s, i) ==
    IF i <= Len(s) /\ s[i] \in (Digit \cup {","}) THEN RunEnd(s, i + 1) ELSE i

\* the pattern matched with its first character at i and its group starting at
\* j: the group, or no match
MatchGroup(text, pat, j, k) ==
    IF k = j THEN [ok |-> FALSE]
    ELSE IF pat.cr /\ ~StartsWithAt(text, CrText, SkipSpaces(text, k))
    THEN [ok |-> FALSE]
    ELSE [ok |-> TRUE, group |-> SubSeq(text, j, k - 1)]

GroupStart(text, pat, i) ==
    IF pat.prefix = <<>> THEN i ELSE SkipSpaces(text, i + Len(pat.prefix))

MatchFrom(text, pat, j) == MatchGroup(text, pat, j, RunEnd(text, j))

MatchAt(text, pat, i) ==
    IF ~StartsWithAt(text, pat.prefix, i) THEN [ok |-> FALSE]
    ELSE MatchFrom(text, pat, GroupStart(text, pat, i))

MinOf(S) == CHOOSE i \in S : \A h \in S : i <= h

LeftmostMatch(text, pat, hits) ==
    IF hits = {} THEN [ok |-> FALSE] ELSE MatchAt(text, pat, MinOf(hits))

\* re.search(pattern, text): the leftmost match
ReSearch(text, pat) ==
    LeftmostMatch(text, pat, {i \in 1..Len(text) : MatchAt(text, pat, i).ok})

\* the inner loop over patterns: the first pattern that matches sets market_cap
RECURSIVE TryPatterns(_, _, _)
FirstMatch(text, n, mc, m) ==
    IF m.ok THEN PyStr(RemoveChar(m.group, ",")) ELSE TryPatterns(text, n + 1, mc)

TryPatterns(text, n, mc) ==
    IF n > Len(patterns) THEN mc
    ELSE FirstMatch(text, n, mc, ReSearch(text, patterns[n]))

Truthy(mc) == mc # None /\ ~(mc.t = "str" /\ mc.v = <<>>)

\* the loop over the li elements of ul#top-ratios
RECURSIVE ScanRatios(_, _, _)
AfterPatterns(lis, n, mc2) ==
    IF Truthy(mc2) THEN mc2 ELSE ScanRatios(lis, n + 1, mc2)

ScanItem(lis, n, mc, text) ==
    IF Contains(text, MarketCapText)
    THEN AfterPatterns(lis, n, TryPatterns(text, 1, mc))
    ELSE ScanRatios(lis, n + 1, mc)

ScanRatios(lis, n, mc) ==
    IF n > Len(lis) THEN mc
    ELSE ScanItem(lis, n, mc, ReplaceChar(Strip(lis[n]), "U00A0", " "))

\* top_ratios is None when the page has no ul#top-ratios
ExtractMarketCap(page) ==
    IF page.top_ratios = None THEN None
    ELSE ScanRatios(page.top_ratios.v, 1, None)

----------------------------------------------------------------------------
(* get_earnings: the table (lines 145-159) and the metric rows (lines 164-188) *)

MaxQuarters == 8
YoYLag == 4

SalesText == <<"S", "a", "l", "e", "s">>
OperatingProfitText ==
    <<"O", "p", "e", "r", "a", "t", "i", "n", "g", " ", "P", "r", "o", "f", "i", "t">>
OpmText == <<"O", "P", "M", " ", "%">>
EpsText == <<"E", "P", "S", " ", "i", "n", " ", "R", "s">>
RawPdfText == <<"R", "a", "w", " ", "P", "D", "F">>

MapSeq(f(_), s) == [i \in 1..Len(s) |-> f(s[i])]

\* line 149: the stripped texts of the cells whose stripped text is non-empty
cols_text(row) == SelectSeq(MapSeq(Strip, row), LAMBDA c : c # <<>>)

\* lines 146-153: the rows that keep at least one cell
TableData(rows) == SelectSeq(MapSeq(cols_text, rows), LAMBDA r : r # <<>>)

\* line 159
Quarters(data) == IF Len(data[1]) > 1 THEN Tail(data[1]) ELSE <<>>

\* lines 173-186: one value cell; a ValueError leaves None
CellValue(f) == IF f.ok THEN f.val ELSE None

ParseCell(v) ==
    IF v = <<>> THEN None
    ELSE CellValue(ParseFloat(IF Contains(v, <<"%">>)
                              THEN RStripChars(v, {"%"})
                              ELSE RemoveChar(v, ",")))

\* line 168
MetricName(row) == RStripChars(row[1], {" ", "+"})

\* lines 167-188: the rows kept, as [metric, vals], in table order
IsMetricName(name) == name # RawPdfText /\ name # <<>>

MetricRow(row) == [metric |-> MetricName(row), vals |-> MapSeq(ParseCell, Tail(row))]

MetricRows(data) ==
    MapSeq(MetricRow, SelectSeq(Tail(data), LAMBDA row : IsMetricName(MetricName(row))))

\* next((i for i, m in enumerate(metrics) if test(m)), -1), 1-based, 0 for -1
MinOrZero(hits) == IF hits = {} THEN 0 ELSE MinOf(hits)

FirstIdx(rows, test(_)) == MinOrZero({i \in 1..Len(rows) : test(rows[i].metric)})

Nones(n) == [i \in 1..n |-> None]

\* lines 200-203
PickSeries(rows, idx, quarters) ==
    IF idx # 0 THEN rows[idx].vals ELSE Nones(Len(quarters))

\* lines 205-207: int(x) raises on nan and inf
IntRaises(series) == \E i \in 1..Len(series) : series[i].t \in {"nan", "inf", "-inf"}

ToInts(series) ==
    [i \in 1..Len(series) |->
        IF series[i] = None THEN None ELSE PyInt(Trunc(series[i]))]

----------------------------------------------------------------------------
(* get_earnings: derived metrics (lines 209-215) *)

\* round(x, 0) of the quotient num / den (den > 0): nearest, ties to even
RoundHalfEven(num, den) ==
    LET q == num \div den
        r == num % den
    IN  IF 2 * r < den THEN q
        ELSE IF 2 * r > den THEN q + 1
        ELSE IF q % 2 = 0 THEN q ELSE q + 1

\* The arithmetic of line 212 is done on doubles: (current - prev) / abs(prev)
\* is the double nearest to the quotient, its product by 100 is rounded to a
\* double again, and round(x, 0) takes the integer nearest to that double, ties
\* to even.  For the magnitudes of the model (below 2^31) the result is the
\* integer nearest to the exact percentage whenever that is not halfway between
\* two integers; when it is, the two roundings decide on which side of the
\* half the double falls, and they are followed bit by bit.
MantissaBits == 53

\* n doubled until it is at least d, then d doubled while n is at least 2d:
\* the quotient scaled into [1, 2)
RECURSIVE ScaleUp(_, _)
ScaleUp(n, d) == IF n < d THEN ScaleUp(2 * n, d) ELSE n

RECURSIVE ScaleDown(_, _)
ScaleDown(n, d) == IF n >= 2 * d THEN ScaleDown(n, 2 * d) ELSE d

\* the bits of the quotient after the leading one, by long division, and the
\* remainder left after the last bit
RECURSIVE DivBits(_, _, _)
DivBits(r, d, bits) ==
    IF Len(bits) = MantissaBits THEN [bits |-> bits, r |-> r]
    ELSE IF 2 * r >= d THEN DivBits(2 * r - d, d, Append(bits, 1))
    ELSE DivBits(2 * r, d, Append(bits, 0))

\* the mantissa plus one
LastZero(bits) == CHOOSE j \in 1..Len(bits) : bits[j] = 0 /\ \A i \in (j + 1)..Len(bits) : bits[i] = 1
PlusOne(bits, j) == [i \in 1..Len(bits) |-> IF i < j THEN bits[i] ELSE IF i = j THEN 1 ELSE 0]

\* the division rounded to nearest, ties to even: [bits, r, up, d]
RoundedQuotient(q, d) ==
    IF 2 * q.r > d \/ (2 * q.r = d /\ q.bits[MantissaBits] = 1)
    THEN [bits |-> PlusOne(q.bits, LastZero(q.bits)), r |-> q.r, up |-> TRUE, d |-> d]
    ELSE [bits |-> q.bits, r |-> q.r, up |-> FALSE, d |-> d]

Quotient(n1, d1) == RoundedQuotient(DivBits(n1 - d1, d1, <<1>>), d1)

\* the least mantissa whose product by 100 is at least 2^59, most significant bit first
CarryMantissa ==
    <<1, 0, 1, 0, 0, 0, 1, 1, 1, 1, 0, 1, 0, 1, 1, 1, 0, 0, 0, 0, 1, 0, 1, 0, 0, 0, 1, 1, 1, 1, 0, 1, 0, 1, 1, 1, 0, 0, 0, 0, 1, 0, 1, 0, 0, 0, 1, 1, 1, 1, 0, 1, 1>>

AtLeast(bits, other) ==
    \/ bits = other
    \/ \E i \in 1..Len(bits) : bits[i] > other[i] /\ \A j \in 1..(i - 1) : bits[j] = other[j]

\* the last 8 bits of the mantissa as a number
LowByte(bits) ==
    128 * bits[MantissaBits - 7] + 64 * bits[MantissaBits - 6] + 32 * bits[MantissaBits - 5]
    + 16 * bits[MantissaBits - 4] + 8 * bits[MantissaBits - 3] + 4 * bits[MantissaBits - 2]
    + 2 * bits[MantissaBits - 1] + bits[MantissaBits]

\* the product of the mantissa by 100 has 6 or 7 bits too many: what rounding
\* them away adds to the product, in units of the last bit of the mantissa;
\* unit is 2^6 or 2^7 and prod the product of the low byte by 100
ProductRounding(prod, unit) ==
    LET L == prod % unit
    IN  IF 2 * L > unit \/ (2 * L = unit /\ (prod \div unit) % 2 = 1)
        THEN unit - L ELSE 0 - L

\* the sign of (the double product) - (the exact percentage)
SideOf(q, unit) ==
    (ProductRounding(100 * LowByte(q.bits), unit) + (IF q.up THEN 100 ELSE 0)) * q.d - 100 * q.r

Side(q) == SideOf(q, IF AtLeast(q.bits, CarryMantissa) THEN 128 ELSE 64)

\* round(x, 0) of the double x beside the half k + 1/2
RoundBeside(k, side) ==
    IF side > 0 THEN k + 1
    ELSE IF side < 0 THEN k
    ELSE IF k % 2 = 0 THEN k ELSE k + 1

TieRound(n1, d, k) == RoundBeside(k, Side(Quotient(n1, ScaleDown(n1, d))))

\* the magnitude of int(round(n / d * 100, 0)) for n >= 0, d > 0
RoundPct(n, d) ==
    IF 2 * ((100 * n) % d) = d
    THEN TieRound(ScaleUp(n, d), d, (100 * n) \div d)
    ELSE RoundHalfEven(100 * n, d)

SignedPct(diff, d) == IF diff < 0 THEN 0 - RoundPct(0 - diff, d) ELSE RoundPct(diff, d)

calc_pct(current, prev) ==
    IF prev = None \/ current = None THEN NA
    ELSE IF prev.v = 0 THEN NA
    ELSE PyInt(SignedPct(current.v - prev.v, Abs(prev.v)))

AnyPresent(sales) == \E i \in 1..Len(sales) : sales[i] # None

NAs(n) == [i \in 1..n |-> NA]

\* line 214
SalesQoQ(sales, quarters) ==
    IF sales # <<>> /\ AnyPresent(sales)
    THEN <<NA>> \o [i \in 1..(Len(sales) - 1) |-> calc_pct(sales[i + 1], sales[i])]
    ELSE NAs(Len(quarters))

\* line 215
SalesYoY(sales, quarters) ==
    IF sales # <<>> /\ AnyPresent(sales)
    THEN NAs(Min(YoYLag, Len(sales)))
         \o [i \in 1..(IF Len(sales) > YoYLag THEN Len(sales) - YoYLag ELSE 0) |->
                calc_pct(sales[i + YoYLag], sales[i])]
    ELSE NAs(Len(quarters))

----------------------------------------------------------------------------
(* get_earnings: the window (lines 217-226) *)

\* x[-num_qtrs:][::-1] if quarters else []
LatestFirst(series, quarters) ==
    IF quarters # <<>>
    THEN Reverse(LastN(series, Min(Len(quarters), MaxQuarters)))
    ELSE <<>>

----------------------------------------------------------------------------
(* get_earnings: one iteration of the loop over urls (lines 84-250) *)

HttpOk == 200

report_keys == {"Sales", "Operating Profit", "OPM %", "EPS in Rs", "Sales YoY %", "Sales QoQ %"}

\* the text of the exception int() raises on the first nan or infinity of a
\* series (the text is the same for both infinities)
IntErrorText(x) ==
    IF x.t = "nan" THEN "cannot convert float NaN to integer"
    ELSE "cannot convert float infinity to integer"

IntError(series) ==
    IntErrorText(series[MinOf({i \in 1..Len(series) : series[i].t \in {"nan", "inf", "-inf"}})])

\* lines 228-240
Report(symbol, mc, loc) ==
    [symbol |-> Upper(symbol),
     marketCap |-> mc,
     quarters |-> LatestFirst(loc.quarters, loc.quarters),
     metrics |-> [k \in report_keys |->
        CASE k = "Sales" -> LatestFirst(loc.sales, loc.quarters)
          [] k = "Operating Profit" -> LatestFirst(loc.op_profit, loc.quarters)
          [] k = "OPM %" -> LatestFirst(loc.opm, loc.quarters)
          [] k = "EPS in Rs" -> LatestFirst(loc.eps, loc.quarters)
          [] k = "Sales YoY %" -> LatestFirst(loc.sales_yoy, loc.quarters)
          [] k = "Sales QoQ %" -> LatestFirst(loc.sales_qoq, loc.quarters)]]

\* line 248
ErrorReport(symbol, mc, msg) ==
    [symbol |-> Upper(symbol), marketCap |-> mc, quarters |-> <<>>,
     metrics |-> [k \in {} |-> None], error |-> msg]

\* lines 245-250: the except clause.  Reading market_cap before any iteration
\* assigned it raises UnboundLocalError out of the handler, and so out of the call.
OnException(symbol, mc, isLast, msg) ==
    IF isLast
    THEN IF mc = Unbound
         THEN [kind |-> "raise", exc |-> "UnboundLocalError", mc |-> mc]
         ELSE [kind |-> "return", value |-> ErrorReport(symbol, mc, msg), mc |-> mc]
    ELSE [kind |-> "continue", mc |-> mc]

\* lines 193-203: the four series picked from the metric rows
SeriesOf(quarters, rows) ==
    [quarters |-> quarters,
     sales |-> PickSeries(rows, FirstIdx(rows, LAMBDA m : Contains(m, SalesText)), quarters),
     op_profit |-> PickSeries(rows, FirstIdx(rows, LAMBDA m : m = OperatingProfitText), quarters),
     opm |-> PickSeries(rows, FirstIdx(rows, LAMBDA m : m = OpmText), quarters),
     eps |-> PickSeries(rows, FirstIdx(rows, LAMBDA m : m = EpsText), quarters)]

\* lines 159-203
RawSeries(data) == SeriesOf(Quarters(data), MetricRows(data))

\* lines 205-215: the locals the report is built from
DerivedFrom(raw, sales) ==
    [quarters |-> raw.quarters,
     sales |-> sales,
     op_profit |-> ToInts(raw.op_profit),
     opm |-> ToInts(raw.opm),
     eps |-> raw.eps,
     sales_qoq |-> SalesQoQ(sales, raw.quarters),
     sales_yoy |-> SalesYoY(sales, raw.quarters)]

Derived(raw) == DerivedFrom(raw, ToInts(raw.sales))

\* lines 228-243
ReturnReport(symbol, mc, loc) ==
    [kind |-> "return", value |-> Report(symbol, mc, loc), mc |-> mc, locals |-> loc]

\* the first of the three int() conversions of lines 205-207 that raises
FirstIntError(raw) ==
    IntError(IF IntRaises(raw.sales) THEN raw.sales
             ELSE IF IntRaises(raw.op_profit) THEN raw.op_profit
             ELSE raw.opm)

\* lines 205-243, once the series are picked
ExtractFrom(symbol, mc, isLast, raw) ==
    IF IntRaises(raw.sales) \/ IntRaises(raw.op_profit) \/ IntRaises(raw.opm)
    THEN OnException(symbol, mc, isLast, FirstIntError(raw))
    ELSE ReturnReport(symbol, mc, Derived(raw))

\* lines 164-243, once data is known
Extract(symbol, mc, data, isLast) == ExtractFrom(symbol, mc, isLast, RawSeries(data))

\* lines 133-243: the page once market_cap (mc1) and data are known
OnPage(symbol, page, isLast, mc1, data) ==
    IF page.section = "none" THEN [kind |-> "continue", mc |-> mc1]
    ELSE IF ~page.table THEN [kind |-> "continue", mc |-> mc1]
    ELSE IF Len(data) < 1 THEN [kind |-> "continue", mc |-> mc1]
    ELSE IF Len(Quarters(data)) < 1 /\ ~isLast THEN [kind |-> "continue", mc |-> mc1]
    ELSE Extract(symbol, mc1, data, isLast)

\* one pass of the loop body for the response the fetch produced; mc is the
\* value market_cap holds on entry (Unbound before the first assignment)
Iteration(symbol, resp, isLast, mc) ==
    IF resp.fetch = "raise" \/ resp.status # HttpOk
    THEN OnException(symbol, mc, isLast,
                     IF resp.fetch = "raise" THEN "fetch failed" ELSE "Failed to fetch page")
    ELSE OnPage(symbol, resp.page, isLast, ExtractMarketCap(resp.page),
                TableData(resp.page.rows))

NumUrls == 2

\* the whole call on the responses of the candidate URLs, in order:
\* [kind |-> "return", value |-> report], [kind |-> "none"] when the loop ends
\* without a return (the function then returns None), or [kind |-> "raise"]
RECURSIVE GetEarningsFrom(_, _, _, _)
AfterIteration(symbol, resps, i, o) ==
    IF o.kind = "continue" THEN GetEarningsFrom(symbol, resps, i + 1, o.mc)
    ELSE IF o.kind = "return" THEN [kind |-> "return", value |-> o.value]
    ELSE [kind |-> "raise", exc |-> o.exc]

GetEarningsFrom(symbol, resps, i, mc) ==
    IF i > NumUrls THEN [kind |-> "none"]
    ELSE AfterIteration(symbol, resps, i, Iteration(symbol, resps[i], i = NumUrls, mc))

get_earnings(symbol, resps) == GetEarningsFrom(symbol, resps, 1, Unbound)

----------------------------------------------------------------------------
(* The pages the fetcher can return *)

MaxLabels == 9      \* quarter-label cells in the header row: 0..MaxLabels
MaxDelta == 1       \* a metric row has up to MaxDelta cells fewer or more than that

DigitChar(n) == <<"0", "1", "2", "3", "4", "5", "6", "7", "8", "9">>[n + 1]

NatText(n) == IF n < 10 THEN <<DigitChar(n)>> ELSE <<DigitChar(n \div 10), DigitChar(n % 10)>>

QLabel(j) == <<"Q">> \o NatText(j)

\* the texts a value cell of the row under test can hold
CellPool ==
    << <<"1", "0", "0">>, <<"1", "1", "0">>, <<>>, <<"9", "0", "\n">>,
       <<"1", ",", "2", "0", "0">>, <<"-">>, <<"0">>, <<"-", "5", "0">> >>

\* row patterns: 1..Len(CellPool) walks the pool from that cell on,
\* Len(CellPool)+k repeats the k-th of ConstCells in every cell
ConstCells == << <<"1", "0", "0">>, <<"-">>, <<>> >>
NumPatterns == Len(CellPool) + Len(ConstCells)

ValueCells(n, pat) ==
    [j \in 1..n |->
        IF pat <= Len(CellPool)
        THEN CellPool[((pat + j - 2) % Len(CellPool)) + 1]
        ELSE ConstCells[pat - Len(CellPool)]]

\* the texts of the other rows' cells, walked from cell `from` on
AuxPool ==
    << <<"5", ".", "5">>, <<"1", "2", "%">>, <<"1", ",", "2", "%">>, <<"U00A0">>,
       <<"7", "e", "1">>, <<"-", "2", ".", "2", "5">> >>

AuxCells(n, from) == [j \in 1..n |-> AuxPool[((from + j - 2) % Len(AuxPool)) + 1]]

ExpensesText == <<"E", "x", "p", "e", "n", "s", "e", "s">>
NetSalesText == <<"N", "e", "t", " ", "S", "a", "l", "e", "s">>
PlusText == <<"+">>

Clip(n) == IF n < 0 THEN 0 ELSE n

\* the tr elements of the table, as the texts of their cells: a header row with
\* nq quarter labels, then the metric rows of one of the layouts; the row under
\* test has nq + d value cells following pattern pat
Layouts == {"full", "ragged", "nosales", "blanklabel", "headeronly", "nan"}

Grid(nq, label, layout, d, pat) ==
    LET header == <<label>> \o [j \in 1..nq |-> QLabel(j)]
        n == Clip(nq + d)
        row(name, len, p) == <<name>> \o ValueCells(len, p)
        aux(name, len, from) == <<name>> \o AuxCells(len, from)
    IN  <<header>> \o
        CASE layout = "full" ->
               << row(SalesText \o <<" ", "+">>, n, pat),
                  row(ExpensesText, nq, 1),
                  <<<<>>, <<" ">>>>,
                  row(OperatingProfitText, nq, 2),
                  aux(OpmText, nq, 2),
                  aux(EpsText, nq, 1),
                  <<RawPdfText, <<"x">>>> >>
          [] layout = "ragged" ->
               << row(NetSalesText, n, pat),
                  row(OperatingProfitText, nq + 1, 1),
                  aux(OpmText, Clip(nq - 1), 2),
                  aux(EpsText, n, 1) >>
          [] layout = "nosales" ->
               << row(OperatingProfitText, n, pat),
                  aux(EpsText, nq, 5) >>
          [] layout = "blanklabel" ->
               << row(<<>>, n, pat),
                  <<PlusText>>,
                  row(SalesText, nq, 1),
                  row(NetSalesText, nq, 2) >>
          [] layout = "headeronly" -> <<>>
          [] layout = "nan" ->
               << row(SalesText, n, pat),
                  row(OpmText, nq, 1) \o <<NanText>>,
                  aux(EpsText, nq, 1) \o <<NanText>> >>

\* the li texts of ul#top-ratios
RatioLists ==
    { None,
      [t |-> "list", v |-> << <<"R", "O", "E", " ", "9", "%">> >>],
      [t |-> "list", v |-> << MarketCapText \o <<" ", "INR", " ", "1", ",", "2", "3", "4", " ", "C", "r", ".">> >>],
      [t |-> "list", v |-> << MarketCapText \o <<" ", "n", "a">>,
                              MarketCapText \o <<" ", "R", "s", ".", "5", "6">> >>],
      [t |-> "list", v |-> << <<"\n">> \o MarketCapText \o <<"U00A0", "7", "8", "\t", "C", "r">> >>] }

BaseRatios == [t |-> "list", v |-> << MarketCapText \o <<" ", "INR", " ", "1", ",", "2", "3", "4", " ", "C", "r", ".">> >>]

Page(ratios, section, table, rows) ==
    [top_ratios |-> ratios, section |-> section, table |-> table, rows |-> rows]

OkResponse(page) == [fetch |-> "ok", status |-> HttpOk, page |-> page]

BaseGrid == Grid(2, <<>>, "full", 0, 1)

\* responses that never reach the table
FailedResponses ==
    {[fetch |-> "raise"], [fetch |-> "ok", status |-> 404]}
    \cup {OkResponse(Page(r, "none", FALSE, <<>>)) : r \in {None, BaseRatios}}
    \cup {OkResponse(Page(r, "card", FALSE, <<>>)) : r \in {None, BaseRatios}}
    \cup {OkResponse(Page(BaseRatios, "quarters", TRUE, rows)) :
            rows \in {<<>>, << <<<<>>, <<" ">>>> >>}}

\* pages with a table: every market-cap text on the base grid, and every grid
\* with the base market-cap text
GridResponses ==
    {OkResponse(Page(r, s, TRUE, BaseGrid)) : r \in RatioLists, s \in {"quarters", "card"}}
    \cup {OkResponse(Page(BaseRatios, "quarters", TRUE, Grid(nq, label, layout, d, pat))) :
            nq \in 0..MaxLabels, label \in {<<>>, <<"Q">>}, layout \in Layouts,
            d \in (-MaxDelta)..MaxDelta, pat \in 1..NumPatterns}

Responses == FailedResponses \cup GridResponses

SymbolSet == {<<"t", "c", "s">>, <<"I", "n", "f", "y">>}

----------------------------------------------------------------------------
(* Specification of one get_earnings call *)

NoResponse == [fetch |-> "none"]

geInit ==
    /\ gePc = "loop"
    /\ urlIdx = 1
    /\ market_cap = Unbound
    /\ response = NoResponse
    /\ result = Unbound
    /\ geSymbol \in SymbolSet
    /\ locals = None

\* what the outcome o of one pass does to the call
AfterAttempt(resp, o) ==
    /\ market_cap' = o.mc
    /\ gePc' = (CASE o.kind = "continue" -> gePc
                  [] o.kind = "return" -> "returned"
                  [] o.kind = "raise" -> "raised")
    /\ urlIdx' = IF o.kind = "continue" THEN urlIdx + 1 ELSE urlIdx
    /\ response' = IF o.kind = "continue" THEN response ELSE resp
    /\ result' = IF o.kind = "return" THEN o.value ELSE result
    /\ locals' = IF "locals" \in DOMAIN o THEN o.locals ELSE locals

\* one pass of the loop body of get_earnings, for whatever the fetch returns
Attempt ==
    /\ gePc = "loop"
    /\ urlIdx <= NumUrls
    /\ \E resp \in Responses :
          AfterAttempt(resp, Iteration(geSymbol, resp, urlIdx = NumUrls, market_cap))
    /\ UNCHANGED geSymbol

\* the loop ran out of urls without a return: the function returns None
FallOff ==
    /\ gePc = "loop"
    /\ urlIdx > NumUrls
    /\ gePc' = "fell_off"
    /\ result' = None
    /\ UNCHANGED <<urlIdx, market_cap, response, geSymbol, locals>>

geNext == Attempt \/ FallOff

----------------------------------------------------------------------------
(* get_multiple_stocks (lines 273-304) *)

SleepSeconds == 5
MaxSymbols == 3     \* symbols in one batch request: 0..MaxSymbols

EmptyDict == [k \in {} |-> None]

\* d[key] = value
DictSet(d, key, value) ==
    [k \in DOMAIN d \cup {key} |-> IF k = key THEN value ELSE d[k]]

\* lines 289-298 for one symbol, given what get_earnings(symbol) did (o):
\* the dicts afterwards, and whether time.sleep(5) ran
NoneTypeError == "argument of type 'NoneType' is not iterable"

\* OnSymbol with an except clause that only logs: the failure is not recorded
OnSymbolLogOnly(symbol, o, res, errs) ==
    IF o.kind = "return"
    THEN IF "error" \in DOMAIN o.value
         THEN [results |-> res, errors |-> DictSet(errs, symbol, o.value.error),
               slept |-> TRUE, aborted |-> FALSE]
         ELSE [results |-> DictSet(res, symbol, o.value), errors |-> errs,
               slept |-> TRUE, aborted |-> FALSE]
    ELSE [results |-> res, errors |-> errs, slept |-> FALSE, aborted |-> FALSE]

OnSymbol(symbol, o, res, errs) ==
    IF o.kind = "return"
    THEN IF "error" \in DOMAIN o.value
         THEN [results |-> res, errors |-> DictSet(errs, symbol, o.value.error),
               slept |-> TRUE, aborted |-> FALSE]
         ELSE [results |-> DictSet(res, symbol, o.value), errors |-> errs,
               slept |-> TRUE, aborted |-> FALSE]
    ELSE \* get_earnings raised, or returned None and `'error' in result` raised:
         \* the except clause of line 296
         [results |-> res,
          errors |-> DictSet(errs, symbol, IF o.kind = "none" THEN NoneTypeError ELSE o.exc),
          slept |-> FALSE, aborted |-> FALSE]

\* the pages the fetcher returns in the batch specification
BatchResponses ==
    { [fetch |-> "raise"],
      [fetch |-> "ok", status |-> 404],
      OkResponse(Page(None, "none", FALSE, <<>>)),
      OkResponse(Page(BaseRatios, "quarters", TRUE, BaseGrid)),
      OkResponse(Page(BaseRatios, "quarters", TRUE, Grid(1, <<"Q">>, "nan", 0, 1))),
      OkResponse(Page(None, "card", TRUE, Grid(0, <<"Q">>, "headeronly", 0, 1))) }

BatchSymbols == {<<"t", "c", "s">>, <<"i", "t", "c">>}

SymbolLists ==
    UNION {[1..n -> BatchSymbols] : n \in 0..MaxSymbols}

bInit ==
    /\ bPc = "start"
    /\ symbols \in SymbolLists
    /\ symIdx = 0
    /\ results = EmptyDict
    /\ errors = EmptyDict
    /\ clock = 0
    /\ calls = <<>>
    /\ batchResponse = None

\* lines 276-286
BatchStart ==
    /\ bPc = "start"
    /\ IF symbols = <<>>
       THEN /\ bPc' = "responded"
            /\ batchResponse' = [success |-> FALSE, error |-> "No symbols provided",
                                 status |-> 400]
            /\ UNCHANGED symIdx
       ELSE /\ bPc' = "loop"
            /\ symIdx' = 1
            /\ UNCHANGED batchResponse
    /\ UNCHANGED <<symbols, results, errors, clock, calls>>

\* what one pass of the loop of line 288 does, given the outcome o of get_earnings
\* and the effect e of lines 289-298.  The clock counts the seconds spent in
\* time.sleep only: the requests themselves are taken to be instantaneous.
AfterSymbol(o, e) ==
    /\ results' = e.results
    /\ errors' = e.errors
    /\ clock' = IF e.slept THEN clock + SleepSeconds ELSE clock
    /\ calls' = Append(calls, [symbol |-> symbols[symIdx], at |-> clock,
                               outcome |-> IF o.kind = "return" /\ "error" \in DOMAIN o.value
                                           THEN "error" ELSE o.kind])
    /\ IF e.aborted
       THEN /\ bPc' = "responded"
            /\ batchResponse' = [success |-> FALSE, status |-> 500]
            /\ UNCHANGED symIdx
       ELSE /\ symIdx' = symIdx + 1
            /\ UNCHANGED <<bPc, batchResponse>>

ProcessWith(o) == AfterSymbol(o, OnSymbol(symbols[symIdx], o, results, errors))

ProcessSymbol ==
    /\ bPc = "loop"
    /\ symIdx <= Len(symbols)
    /\ \E r1 \in BatchResponses, r2 \in BatchResponses :
          ProcessWith(get_earnings(symbols[symIdx], <<r1, r2>>))
    /\ UNCHANGED symbols

\* lines 300-304
BatchRespond ==
    /\ bPc = "loop"
    /\ symIdx > Len(symbols)
    /\ bPc' = "responded"
    /\ batchResponse' = [success |-> TRUE, results |-> results, errors |-> errors,
                         status |-> 200]
    /\ UNCHANGED <<symbols, symIdx, results, errors, clock, calls>>

----------------------------------------------------------------------------
(* load_nse_mapping (lines 47-72) and find_nse_symbol (lines 306-346) *)

MinWordLen == 3          \* a significant word is longer than this
FuzzyThresholdPct == 60  \* matches / len(company_words) >= 0.6

\* a dict is the sequence of its <<key, value>> items in insertion order
Keys(d) == {d[i][1] : i \in 1..Len(d)}
HasKey(d, k) == k \in Keys(d)
Lookup(d, k) == d[CHOOSE i \in 1..Len(d) : d[i][1] = k][2]

\* d[k] = v: a new key is appended, a known key keeps its place
SetItem(d, k, v) ==
    IF HasKey(d, k)
    THEN [i \in 1..Len(d) |-> IF d[i][1] = k THEN <<k, v>> ELSE d[i]]
    ELSE Append(d, <<k, v>>)

\* d.update(items), item by item
RECURSIVE DictUpdate(_, _)
DictUpdate(d, items) ==
    IF items = <<>> THEN d
    ELSE DictUpdate(SetItem(d, items[1][1], items[1][2]), Tail(items))

\* line 63: dict(zip(names.str.lower(), symbols))
CsvRow(r) == <<Lower(r.name), PyStr(r.symbol)>>
MappingOf(rows) == DictUpdate(<<>>, MapSeq(CsvRow, rows))

\* an update that lets other threads run between two insertions: one step
\* inserts the first item of `items` the dict does not hold yet
UpdateOneItem(d, items) ==
    LET todo == SelectSeq(items, LAMBDA it : ~HasKey(d, it[1]))
    IN  IF todo = <<>> THEN [mapping |-> d, done |-> TRUE]
        ELSE [mapping |-> SetItem(d, todo[1][1], todo[1][2]), done |-> Len(todo) = 1]

\* line 64, nse_mapping.update(mapping): [mapping |-> the dict after the step,
\* done |-> the statement has run to its end].  dict.update with a dict
\* argument is one call into the interpreter, which does not release the
\* interpreter lock while it inserts str keys, so no other thread runs between
\* the insertions: the statement is one step.
UpdateStatement(d, items) == [mapping |-> DictUpdate(d, items), done |-> TRUE]

\* lines 320-328
KnownKeys ==
    { <<"h", "d", "i", "l">>,
      <<"i", "n", "d", "i", "a", " ", "c", "e", "m", "e", "n", "t", "s">>,
      <<"u", "l", "t", "r", "a", "t", "e", "c", "h", " ", "c", "e", "m", "e", "n", "t">>,
      <<"c", "o", "f", "o", "r", "g", "e">>,
      <<"r", "e", "g", "a", "a", "l">>,
      <<"v", "i", "k", "r", "a", "m", " ", "s", "o", "l", "a", "r">>,
      <<"s", "u", "g", "a", "r">> }

known_mappings ==
    [k \in KnownKeys |->
        CASE k = <<"h", "d", "i", "l">> -> PyStr(<<"H", "D", "I", "L">>)
          [] k = <<"i", "n", "d", "i", "a", " ", "c", "e", "m", "e", "n", "t", "s">> -> PyStr(<<"I", "N", "D", "I", "A", "C", "E", "M">>)
          [] k = <<"u", "l", "t", "r", "a", "t", "e", "c", "h", " ", "c", "e", "m", "e", "n", "t">> -> PyStr(<<"U", "L", "T", "R", "A", "C", "E", "M", "C", "O">>)
          [] k = <<"c", "o", "f", "o", "r", "g", "e">> -> PyStr(<<"C", "O", "F", "O", "R", "G", "E">>)
          [] k = <<"r", "e", "g", "a", "a", "l">> -> None
          [] k = <<"v", "i", "k", "r", "a", "m", " ", "s", "o", "l", "a", "r">> -> None
          [] k = <<"s", "u", "g", "a", "r">> -> None]

\* a resolver without the override table
KnownMiss(company_lower) == [hit |-> FALSE]

\* lines 330-331: [hit, value]
KnownLookup(company_lower) ==
    IF company_lower \in KnownKeys
    THEN [hit |-> TRUE, value |-> known_mappings[company_lower]]
    ELSE [hit |-> FALSE]

\* lines 336-337
SignificantWords(name) == SelectSeq(Split(name), LAMBDA w : Len(w) > MinWordLen)

\* line 341
WordMatches(word, nse_words) ==
    \E j \in 1..Len(nse_words) : Contains(nse_words[j], word) \/ Contains(word, nse_words[j])

CountMatches(company_words, nse_words) ==
    Cardinality({i \in 1..Len(company_words) : WordMatches(company_words[i], nse_words)})

\* a fuzzy stage that takes only the entries every word matches
MeetsAllWords(company_words, nse_words) ==
    /\ company_words # <<>>
    /\ CountMatches(company_words, nse_words) = Len(company_words)

\* lines 340-342
MeetsThreshold(company_words, nse_words) ==
    /\ company_words # <<>>
    /\ 100 * CountMatches(company_words, nse_words) >= FuzzyThresholdPct * Len(company_words)

\* lines 336-342 for one item of the dict
FuzzyMatches(company_lower, nse_company) ==
    MeetsThreshold(SignificantWords(company_lower), SignificantWords(nse_company))

\* lines 334-346 from item i on
RECURSIVE FuzzyScan(_, _, _)
FuzzyScan(company_lower, index, i) ==
    IF i > Len(index) THEN None
    ELSE IF FuzzyMatches(company_lower, index[i][1]) THEN index[i][2]
    ELSE FuzzyScan(company_lower, index, i + 1)

\* lines 312-346, the index being non-empty
ResolveIn(company_lower, index) ==
    IF HasKey(index, company_lower) THEN Lookup(index, company_lower)
    ELSE IF KnownLookup(company_lower).hit THEN KnownLookup(company_lower).value
    ELSE FuzzyScan(company_lower, index, 1)

\* the whole function on an index that does not change during the call
find_nse_symbol(company_name, index) ==
    IF index = <<>> THEN None ELSE ResolveIn(Lower(company_name), index)

\* the rows of EQUITY_L.csv
Datasets ==
    { <<>>,
      << [name |-> <<"T", "C", "S", " ", "L", "t", "d">>, symbol |-> <<"T", "C", "S">>],
       [name |-> <<"D", "h", "a", "m", "p", "u", "r", " ", "S", "u", "g", "a", "r", " ", "M", "i", "l", "l", "s">>, symbol |-> <<"D", "H", "A", "M", "P", "U", "R">>],
       [name |-> <<"T", "a", "t", "a", " ", "S", "t", "e", "e", "l", " ", "L", "i", "m", "i", "t", "e", "d">>, symbol |-> <<"T", "A", "T", "A", "S", "T", "E", "E", "L">>],
       [name |-> <<"T", "a", "t", "a", " ", "M", "o", "t", "o", "r", "s", " ", "L", "i", "m", "i", "t", "e", "d">>, symbol |-> <<"T", "A", "T", "A", "M", "O", "T", "O", "R", "S">>] >>,
      << [name |-> <<"T", "a", "t", "a", " ", "M", "o", "t", "o", "r", "s", " ", "L", "i", "m", "i", "t", "e", "d">>, symbol |-> <<"T", "A", "T", "A", "M", "O", "T", "O", "R", "S">>],
       [name |-> <<"H", "D", "I", "L">>, symbol |-> <<"H", "D", "I", "L", "X">>],
       [name |-> <<"t", "a", "t", "a", " ", "m", "o", "t", "o", "r", "s", " ", "l", "i", "m", "i", "t", "e", "d">>, symbol |-> <<"T", "M", "C", "V">>] >>,
      << [name |-> <<"V", "i", "k", "r", "a", "m", " ", "S", "o", "l", "a", "r", " ", "P", "o", "w", "e", "r">>, symbol |-> <<"V", "S", "O", "L">>],
       [name |-> <<"U00C9", "c", "l", "a", "t", " ", "L", "t", "d">>, symbol |-> <<"E", "C", "L", "A", "T">>] >> }

\* the company names resolved
ResolverNames ==
    { <<"T", "C", "S", " ", "L", "t", "d">>,
      <<"H", "D", "I", "L">>,
      <<"S", "u", "g", "a", "r">>,
      <<"V", "i", "k", "r", "a", "m", " ", "S", "o", "l", "a", "r">>,
      <<"T", "a", "t", "a", " ", "M", "o", "t", "o", "r", "s">>,
      <<"T", "a", "t", "a", " ", "P", "o", "w", "e", "r", " ", "M", "o", "t", "o", "r", "s", " ", "L", "i", "m", "i", "t", "e", "d">>,
      <<"A", "b", "c", " ", "C", "o">>,
      <<"C", "o", "f", "o", "r", "g", "e">>,
      <<"U00C9", "C", "L", "A", "T", " ", "L", "T", "D">>,
      <<"t", "a", "t", "a", "\n", "s", "t", "e", "e", "l", "U00A0", "l", "i", "m", "i", "t", "e", "d">>,
      <<"T", "a", "t", "a", " ", "M", "o", "t", "o", "r", "s", " ", "L", "i", "m", "i", "t", "e", "d", " ", "C", "o">> }

rInit ==
    /\ nse_mapping = <<>>
    /\ dataset \in Datasets
    /\ loadPc = "start"
    /\ loadLocal = <<>>
    /\ rPc = "idle"
    /\ rName = <<>>
    /\ rIter = None
    /\ rSeen = {}
    /\ rRet = Unbound

resolveVars == <<rPc, rName, rIter, rSeen, rRet>>

\* lines 53-63: the CSV is fetched and parsed into the local mapping
LoadFetch ==
    /\ loadPc = "start"
    /\ loadPc' = "fetched"
    /\ loadLocal' = MappingOf(dataset)
    /\ UNCHANGED <<nse_mapping, dataset, resolveVars>>

\* lines 54-55, 71-72: the fetch or the parse raised; the error is logged
LoadFail ==
    /\ loadPc = "start"
    /\ loadPc' = "failed"
    /\ UNCHANGED <<nse_mapping, dataset, loadLocal, resolveVars>>

\* line 64: the global dict takes the items; the local mapping is left as it
\* is (line 68 reads it again)
AfterUpdate(u) ==
    /\ nse_mapping' = u.mapping
    /\ loadPc' = IF u.done THEN "done" ELSE "fetched"

LoadUpdate ==
    /\ loadPc = "fetched"
    /\ AfterUpdate(UpdateStatement(nse_mapping, loadLocal))
    /\ UNCHANGED <<dataset, loadLocal, resolveVars>>

Return(v) == rPc' = "returned" /\ rRet' = v

\* lines 308-310: the call starts and tests `not nse_mapping`
ResolveCall ==
    /\ rPc = "idle"
    /\ \E name \in ResolverNames : rName' = name
    /\ rSeen' = {nse_mapping}
    /\ IF nse_mapping = <<>> THEN Return(None) ELSE rPc' = "exact" /\ rRet' = Unbound
    /\ UNCHANGED <<rIter, nse_mapping, dataset, loadPc, loadLocal>>

\* line 315: company_lower in nse_mapping
ResolveExactTest ==
    /\ rPc = "exact"
    /\ rSeen' = rSeen \cup {nse_mapping}
    /\ rPc' = IF HasKey(nse_mapping, Lower(rName)) THEN "exact_get" ELSE "known"
    /\ UNCHANGED <<rName, rIter, rRet, nse_mapping, dataset, loadPc, loadLocal>>

\* line 316: nse_mapping[company_lower], a KeyError when the key is gone
ResolveExactGet ==
    /\ rPc = "exact_get"
    /\ rSeen' = rSeen \cup {nse_mapping}
    /\ IF HasKey(nse_mapping, Lower(rName))
       THEN Return(Lookup(nse_mapping, Lower(rName)))
       ELSE rPc' = "raised" /\ UNCHANGED rRet
    /\ UNCHANGED <<rName, rIter, nse_mapping, dataset, loadPc, loadLocal>>

\* lines 320-334: the override table; on a miss the loop of line 334 creates
\* the iterator of nse_mapping.items(), which remembers the dict's size
AfterKnown(k) ==
    IF k.hit
    THEN Return(k.value) /\ UNCHANGED <<rIter, rSeen>>
    ELSE /\ rPc' = "fuzzy"
         /\ rIter' = [pos |-> 0, size |-> Len(nse_mapping)]
         /\ rSeen' = rSeen \cup {nse_mapping}
         /\ UNCHANGED rRet

ResolveKnown ==
    /\ rPc = "known"
    /\ AfterKnown(KnownLookup(Lower(rName)))
    /\ UNCHANGED <<rName, nse_mapping, dataset, loadPc, loadLocal>>

\* lines 334-346: the iterator's next item and the body of the loop; the
\* iterator raises RuntimeError when the dict's size changed since it was made
ResolveFuzzyNext ==
    /\ rPc = "fuzzy"
    /\ rSeen' = rSeen \cup {nse_mapping}
    /\ IF Len(nse_mapping) # rIter.size
       THEN rPc' = "raised" /\ UNCHANGED <<rRet, rIter>>
       ELSE IF rIter.pos = rIter.size
       THEN Return(None) /\ UNCHANGED rIter
       ELSE IF FuzzyMatches(Lower(rName), nse_mapping[rIter.pos + 1][1])
       THEN Return(nse_mapping[rIter.pos + 1][2]) /\ UNCHANGED rIter
       ELSE /\ rIter' = [rIter EXCEPT !.pos = @ + 1]
            /\ UNCHANGED <<rPc, rRet>>
    /\ UNCHANGED <<rName, nse_mapping, dataset, loadPc, loadLocal>>

\* the caller takes the value; the next call can start
ResolveDone ==
    /\ rPc = "returned"
    /\ rPc' = "idle"
    /\ rName' = <<>>
    /\ rIter' = None
    /\ rSeen' = {}
    /\ rRet' = Unbound
    /\ UNCHANGED <<nse_mapping, dataset, loadPc, loadLocal>>

ResolveStep == ResolveExactTest \/ ResolveExactGet \/ ResolveKnown \/ ResolveFuzzyNext

----------------------------------------------------------------------------
(* get_upcoming_results (lines 348-473) *)

MinParts == 3     \* a line is parsed when it has at least this many parts
DateParts == 3    \* the parts joined into result_date

\* data_text.split('\n'): the pieces between one break and the next, the
\* breaks being the newlines, the place before the text and the place after it
Breaks(s) == {0, Len(s) + 1} \cup {i \in 1..Len(s) : s[i] = "\n"}
NthBreak(bs, k) == CHOOSE b \in bs : Cardinality({x \in bs : x < b}) = k - 1
PiecesBetween(s, bs) ==
    [k \in 1..(Cardinality(bs) - 1) |-> SubSeq(s, NthBreak(bs, k) + 1, NthBreak(bs, k + 1) - 1)]
SplitLines(s) == PiecesBetween(s, Breaks(s))

\* line 384
NonEmptyLines(data_text) ==
    SelectSeq(MapSeq(Strip, SplitLines(data_text)), LAMBDA l : l # <<>>)

\* line 406: parts[1:-3] if len(parts) > 3 else [parts[1]], as the positions
\* (counted from 1) of the parts taken
CompanyIdx(n) == IF n > DateParts THEN 2..(n - DateParts) ELSE {2}
company_parts(parts) ==
    IF Len(parts) > DateParts THEN SubSeq(parts, 2, Len(parts) - DateParts) ELSE <<parts[2]>>

\* line 403: parts[-3:]
DateIdx(n) == {i \in 1..n : i > n - DateParts}

\* lines 396-407: the fields read from one line
ParseParts(parts) ==
    IF Len(parts) >= MinParts
    THEN [parts |-> parts, parsed |-> TRUE,
          security_code |-> parts[1],
          result_date |-> Join(LastN(parts, DateParts)),
          company_name |-> Join(company_parts(parts))]
    ELSE [parts |-> parts, parsed |-> FALSE]

ParseLine(line) == ParseParts(Split(line))

CalendarRow(company, nse_symbol, result_date, bse_code) ==
    [company |-> company, nse_symbol |-> nse_symbol,
     result_date |-> result_date, bse_code |-> bse_code]

\* lines 412-420
AddResolved(rows, p, nse_symbol) ==
    IF Truthy(nse_symbol)
    THEN Append(rows, CalendarRow(p.company_name, nse_symbol, p.result_date, p.security_code))
    ELSE rows

\* lines 394-423 for one line
AddLine(rows, p, index) ==
    IF p.parsed THEN AddResolved(rows, p, find_nse_symbol(p.company_name, index)) ELSE rows

\* lines 445-460: the rows of the fallback table after its first, td texts
AddFallbackCols(rows, cols, index) ==
    IF Len(cols) >= MinParts
    THEN LET nse_symbol == find_nse_symbol(Strip(cols[1]), index)
         IN  IF Truthy(nse_symbol)
             THEN Append(rows, CalendarRow(Strip(cols[1]), nse_symbol, Strip(cols[3]), Strip(cols[2])))
             ELSE rows
    ELSE rows

CalendarOk(rows) == [status |-> HttpOk, success |-> TRUE, data |-> rows]
CalendarError(e) == [status |-> 400, success |-> FALSE, error |-> e]

\* line 445: table.find_all('tr')[1:]
FallbackRows(fb) == IF fb.rows = <<>> THEN <<>> ELSE Tail(fb.rows)

MaxLines == 3    \* lines of the table text

LinePool ==
    { <<"C", "o", "d", "e", " ", "C", "o", "m", "p", "a", "n", "y", " ", "D", "a", "t", "e">>,
      <<"5", "3", "2", "8", "7", "3", " ", "H", "D", "I", "L", " ", "0", "8", " ", "S", "e", "p", " ", "2", "0", "2", "5">>,
      <<"5", "0", "0", "5", "7", "0", "\t", "T", "a", "t", "a", " ", "M", "o", "t", "o", "r", "s", " ", "L", "i", "m", "i", "t", "e", "d", "U00A0", "1", "2", " ", "N", "o", "v", " ", "2", "0", "2", "5">>,
      <<"1", " ", "H", "D", "I", "L", " ", "2", "0", "2", "5">>,
      <<"5", "3", "2", "8", "7", "3", " ", "H", "D", "I", "L", " ", "S", "e", "p", " ", "2", "0", "2", "5">>,
      <<"5", "3", "2", "8", "7", "3", " ", " ", "H", "D", "I", "L", " ">>,
      <<" ", " ", " ">> }

RECURSIVE JoinLines(_)
JoinLines(ls) ==
    IF ls = <<>> THEN <<>>
    ELSE IF Len(ls) = 1 THEN ls[1]
    ELSE ls[1] \o <<"\n">> \o JoinLines(Tail(ls))

\* the text of the table the browser shows
TableTexts ==
    {JoinLines(ls) : ls \in UNION {[1..n -> LinePool] : n \in 0..MaxLines}}

\* what the second fetch of the page gives
FallbackPages ==
    { [raised |-> TRUE],
      [raised |-> FALSE, status |-> 503, table |-> FALSE, rows |-> <<>>],
      [raised |-> FALSE, status |-> HttpOk, table |-> FALSE, rows |-> <<>>],
      [raised |-> FALSE, status |-> HttpOk, table |-> TRUE, rows |-> <<<<>>>>],
      [raised |-> FALSE, status |-> HttpOk, table |-> TRUE, rows |->
          << <<>>, <<<<"H", "D", "I", "L", " ">>, <<"5", "3", "2", "8", "7", "3">>, <<" ", "0", "8", " ", "S", "e", "p", " ", "2", "0", "2", "5">>>>, <<<<"T", "a", "t", "a", " ", "M", "o", "t", "o", "r", "s">>, <<"5", "0", "0", "5", "7", "0">>>> >>],
      [raised |-> FALSE, status |-> HttpOk, table |-> TRUE, rows |->
          << <<<<"A", "b", "c", " ", "C", "o">>, <<"1">>, <<"2">>>> >>] }

\* a request arrives while the load of the index, started at import (line 75),
\* may still be running
cInit ==
    /\ rInit
    /\ cPc = "idle"
    /\ lines = <<>>
    /\ lineIdx = 0
    /\ lastParse = None
    /\ cResults = <<>>
    /\ fbRows = <<>>
    /\ cResponse = None

\* lines 352-392: the browser gives the table text; no lines, an empty answer
AfterText(ls) ==
    /\ lines' = ls
    /\ lineIdx' = 2
    /\ cResults' = <<>>
    /\ lastParse' = None
    /\ IF ls = <<>>
       THEN cPc' = "responded" /\ cResponse' = CalendarOk(<<>>)
       ELSE cPc' = "lines" /\ cResponse' = None

CalStart ==
    /\ cPc = "idle"
    /\ \E data_text \in TableTexts : AfterText(NonEmptyLines(data_text))
    /\ UNCHANGED fbRows

\* lines 364-381, 468-473: the browser, the page load or the wait raised
CalFail ==
    /\ cPc = "idle"
    /\ cPc' = "responded"
    /\ cResponse' = CalendarError("browser failed")
    /\ UNCHANGED <<lines, lineIdx, lastParse, cResults, fbRows>>

\* lines 394-423: one line of lines[1:]; find_nse_symbol reads the index as it
\* is when the line is handled
AfterLine(p) ==
    /\ lastParse' = p
    /\ cResults' = AddLine(cResults, p, nse_mapping)
    /\ lineIdx' = lineIdx + 1

CalLine ==
    /\ cPc = "lines"
    /\ lineIdx <= Len(lines)
    /\ AfterLine(ParseLine(lines[lineIdx]))
    /\ UNCHANGED <<cPc, lines, fbRows, cResponse>>

\* lines 431-444: what follows the second fetch of the page
AfterFallbackFetch(fb) ==
    IF fb.raised
    THEN cPc' = "responded" /\ cResponse' = CalendarError("fetch failed") /\ UNCHANGED fbRows
    ELSE IF fb.status # HttpOk \/ ~fb.table
    THEN cPc' = "responded" /\ cResponse' = CalendarOk(cResults) /\ UNCHANGED fbRows
    ELSE cPc' = "fallback" /\ fbRows' = FallbackRows(fb) /\ UNCHANGED cResponse

\* lines 425-444: the loop over the lines is over; with rows collected the
\* handler answers, without any it fetches the page again
CalFinish ==
    /\ cPc = "lines"
    /\ lineIdx > Len(lines)
    /\ IF cResults # <<>>
       THEN cPc' = "responded" /\ cResponse' = CalendarOk(cResults) /\ UNCHANGED fbRows
       ELSE \E fb \in FallbackPages : AfterFallbackFetch(fb)
    /\ UNCHANGED <<lines, lineIdx, lastParse, cResults>>

\* lines 446-460: one row of the fallback table
CalFallbackRow ==
    /\ cPc = "fallback"
    /\ fbRows # <<>>
    /\ cResults' = AddFallbackCols(cResults, fbRows[1], nse_mapping)
    /\ fbRows' = Tail(fbRows)
    /\ UNCHANGED <<cPc, lines, lineIdx, lastParse, cResponse>>

\* lines 462-466: the rows of the fallback table are done
CalRespond ==
    /\ cPc = "fallback"
    /\ fbRows = <<>>
    /\ cPc' = "responded"
    /\ cResponse' = CalendarOk(cResults)
    /\ UNCHANGED <<lines, lineIdx, lastParse, cResults, fbRows>>

----------------------------------------------------------------------------
(* get_earnings: lines 209-215 on their own *)

MaxSales == 5    \* values in the sales series, and quarter labels

\* the values of the sales series after line 205: None or an int
SaleValues ==
    {None, PyInt(0), PyInt(100), PyInt(110), PyInt(90), PyInt(40), PyInt(0 - 297)}

SalesSeries == UNION {[1..n -> SaleValues] : n \in 0..MaxSales}

QuarterLists == {[j \in 1..n |-> QLabel(j)] : n \in 0..MaxSales}

dInit ==
    /\ dPc = "start"
    /\ dSales \in SalesSeries
    /\ dQuarters \in QuarterLists
    /\ dQoQ = <<>>
    /\ dYoY = <<>>

\* lines 214-215
ComputeDerived ==
    /\ dPc = "start"
    /\ dPc' = "done"
    /\ dQoQ' = SalesQoQ(dSales, dQuarters)
    /\ dYoY' = SalesYoY(dSales, dQuarters)
    /\ UNCHANGED <<dSales, dQuarters>>

----------------------------------------------------------------------------
(* Specifications *)

geIdle ==
    /\ gePc = "idle" /\ urlIdx = 0 /\ market_cap = Unbound /\ response = NoResponse
    /\ result = Unbound /\ geSymbol = <<>> /\ locals = None

bIdle ==
    /\ bPc = "idle" /\ symbols = <<>> /\ symIdx = 0 /\ results = EmptyDict
    /\ errors = EmptyDict /\ clock = 0 /\ calls = <<>> /\ batchResponse = None

rIdle ==
    /\ nse_mapping = <<>> /\ dataset = <<>> /\ loadPc = "idle" /\ loadLocal = <<>>
    /\ rPc = "idle" /\ rName = <<>> /\ rIter = None /\ rSeen = {} /\ rRet = Unbound

cIdle ==
    /\ cPc = "idle" /\ lines = <<>> /\ lineIdx = 0 /\ lastParse = None /\ cResults = <<>>
    /\ fbRows = <<>> /\ cResponse = None

dIdle ==
    /\ dPc = "idle" /\ dSales = <<>> /\ dQuarters = <<>> /\ dQoQ = <<>> /\ dYoY = <<>>

\* one call of get_earnings
Init == geInit /\ bIdle /\ rIdle /\ cIdle /\ dIdle
Next ==
    \/ Attempt /\ UNCHANGED <<bVars, rVars, cVars, dVars>>
    \/ FallOff /\ UNCHANGED <<bVars, rVars, cVars, dVars>>
Spec == Init /\ [][Next]_vars

\* one request to /api/stocks
BatchInit == bInit /\ geIdle /\ rIdle /\ cIdle /\ dIdle
BatchNext ==
    \/ BatchStart /\ UNCHANGED <<geVars, rVars, cVars, dVars>>
    \/ ProcessSymbol /\ UNCHANGED <<geVars, rVars, cVars, dVars>>
    \/ BatchRespond /\ UNCHANGED <<geVars, rVars, cVars, dVars>>
SpecBatch == BatchInit /\ [][BatchNext]_vars

\* the background load of the index, and calls of find_nse_symbol
ResolverInit == rInit /\ geIdle /\ bIdle /\ cIdle /\ dIdle
ResolverNext ==
    \/ LoadFetch /\ UNCHANGED <<geVars, bVars, cVars, dVars>>
    \/ LoadFail /\ UNCHANGED <<geVars, bVars, cVars, dVars>>
    \/ LoadUpdate /\ UNCHANGED <<geVars, bVars, cVars, dVars>>
    \/ ResolveCall /\ UNCHANGED <<geVars, bVars, cVars, dVars>>
    \/ ResolveExactTest /\ UNCHANGED <<geVars, bVars, cVars, dVars>>
    \/ ResolveExactGet /\ UNCHANGED <<geVars, bVars, cVars, dVars>>
    \/ ResolveKnown /\ UNCHANGED <<geVars, bVars, cVars, dVars>>
    \/ ResolveFuzzyNext /\ UNCHANGED <<geVars, bVars, cVars, dVars>>
    \/ ResolveDone /\ UNCHANGED <<geVars, bVars, cVars, dVars>>
SpecResolver == ResolverInit /\ [][ResolverNext]_vars

\* one request for the calendar, and the background load of the index
CalendarInit == cInit /\ geIdle /\ bIdle /\ dIdle
CalendarNext ==
    \/ LoadFetch /\ UNCHANGED <<geVars, bVars, cVars, dVars>>
    \/ LoadFail /\ UNCHANGED <<geVars, bVars, cVars, dVars>>
    \/ LoadUpdate /\ UNCHANGED <<geVars, bVars, cVars, dVars>>
    \/ CalStart /\ UNCHANGED <<geVars, bVars, rVars, dVars>>
    \/ CalFail /\ UNCHANGED <<geVars, bVars, rVars, dVars>>
    \/ CalLine /\ UNCHANGED <<geVars, bVars, rVars, dVars>>
    \/ CalFinish /\ UNCHANGED <<geVars, bVars, rVars, dVars>>
    \/ CalFallbackRow /\ UNCHANGED <<geVars, bVars, rVars, dVars>>
    \/ CalRespond /\ UNCHANGED <<geVars, bVars, rVars, dVars>>
SpecCalendar == CalendarInit /\ [][CalendarNext]_vars

\* lines 209-215 on a sales series and a list of quarters
DerivedInit == dInit /\ geIdle /\ bIdle /\ rIdle /\ cIdle
DerivedNext == ComputeDerived /\ UNCHANGED <<geVars, bVars, rVars, cVars>>
SpecDerived == DerivedInit /\ [][DerivedNext]_vars

----------------------------------------------------------------------------
(* Properties of get_earnings, checked under Spec *)

Returned == gePc = "returned"
Succeeded == gePc = "returned" /\ "error" \notin DOMAIN result

\* C1: get_earnings tries the candidate URLs in order and always ends by
\* returning a report: it never raises, never ends without a report (returning
\* None), and a report with an error marker comes from the final candidate and
\* carries the market cap extracted so far.
C1_AlwaysReturnsReport ==
    /\ gePc # "raised"
    /\ gePc # "fell_off"
    /\ (gePc = "returned" /\ "error" \in DOMAIN result
            => urlIdx = NumUrls /\ result.marketCap = market_cap)

\* C2: in a successful report the seven series all have the length
\* n = min(number of quarter labels, 8), whatever the lengths of the metric rows.
C2_SeriesSameLength ==
    Succeeded =>
        /\ Len(result.quarters) = Min(Len(locals.quarters), MaxQuarters)
        /\ \A k \in report_keys : Len(result.metrics[k]) = Len(result.quarters)

\* every cell stripped and kept at its column; a row dropped only when all its
\* cells are empty
StripCells(row) == MapSeq(Strip, row)
KeepPositions(rows) ==
    SelectSeq(MapSeq(StripCells, rows), LAMBDA r : \E i \in 1..Len(r) : r[i] # <<>>)

\* C3: the table parser drops only the rows whose cells are all empty and keeps
\* every cell of the other rows at its column, so the series the report is built
\* from are those of the position-preserving grid.
C3_CellsKeepPosition ==
    Succeeded =>
        /\ TableData(response.page.rows) = KeepPositions(response.page.rows)
        /\ locals.quarters = Quarters(KeepPositions(response.page.rows))
        /\ locals.eps = RawSeries(KeepPositions(response.page.rows)).eps

\* C4: the QoQ and YoY sequences have the length of the Sales series, QoQ[0] is
\* N/A when the series is non-empty and YoY[i] is N/A for i < 4.
C4_DerivedLengths ==
    Succeeded =>
        /\ Len(locals.sales_qoq) = Len(locals.sales)
        /\ Len(locals.sales_yoy) = Len(locals.sales)
        /\ (locals.sales # <<>> => locals.sales_qoq # <<>> /\ locals.sales_qoq[1] = NA)
        /\ \A i \in 1..Min(YoYLag, Len(locals.sales)) :
               i <= Len(locals.sales_yoy) /\ locals.sales_yoy[i] = NA

\* the series the window is taken of, with the output of each
WindowPairs ==
    << <<locals.quarters, result.quarters>>,
      <<locals.sales, result.metrics["Sales"]>>,
      <<locals.op_profit, result.metrics["Operating Profit"]>>,
      <<locals.opm, result.metrics["OPM %"]>>,
      <<locals.eps, result.metrics["EPS in Rs"]>>,
      <<locals.sales_qoq, result.metrics["Sales QoQ %"]>>,
      <<locals.sales_yoy, result.metrics["Sales YoY %"]>> >>

\* the name test of lines 193-198 for each scraped metric of the report
ScrapedKeys == {"Sales", "Operating Profit", "OPM %", "EPS in Rs"}
NameTest(key, m) ==
    CASE key = "Sales" -> Contains(m, SalesText)
      [] key = "Operating Profit" -> m = OperatingProfitText
      [] key = "OPM %" -> m = OpmText
      [] key = "EPS in Rs" -> m = EpsText

\* in the tr elements as scraped: the header row, the row a metric is read from
\* (0 when there is none), and the column whose header cell is a quarter label
HeaderRow(rows) == MinOf({i \in 1..Len(rows) : cols_text(rows[i]) # <<>>})
SourceRow(rows, key) ==
    MinOrZero({i \in (HeaderRow(rows) + 1)..Len(rows) :
                  /\ cols_text(rows[i]) # <<>>
                  /\ IsMetricName(MetricName(cols_text(rows[i])))
                  /\ NameTest(key, MetricName(cols_text(rows[i])))})
ColumnOf(rows, label) ==
    CHOOSE c \in 1..Len(rows[HeaderRow(rows)]) : Strip(rows[HeaderRow(rows)][c]) = label

\* the value of the cell of row i in column c, absent when there is no such cell
IntOrNone(x) == IF x = None THEN None ELSE PyInt(Trunc(x))
CellAt(rows, i, c, key) ==
    IF i = 0 \/ c > Len(rows[i]) THEN None
    ELSE IF key = "EPS in Rs" THEN ParseCell(Strip(rows[i][c]))
    ELSE IntOrNone(ParseCell(Strip(rows[i][c])))

\* C10: every output series is latest-first: for every output index k < n
\* (0-based) the output element at k is the element at chronological position
\* length - 1 - k of its series, and the value at index k of every scraped
\* metric is the value of the cell in the column of the quarter label at index
\* k of the quarters output.
C10_LatestFirstAligned ==
    Succeeded =>
        /\ \A j \in 1..Len(WindowPairs) : \A k \in 0..(Len(result.quarters) - 1) :
              /\ k < Len(WindowPairs[j][2])
              /\ k < Len(WindowPairs[j][1])
              /\ WindowPairs[j][2][k + 1] = WindowPairs[j][1][Len(WindowPairs[j][1]) - k]
        /\ \A key \in ScrapedKeys : \A k \in 1..Len(result.quarters) :
              /\ k <= Len(result.metrics[key])
              /\ result.metrics[key][k] =
                     CellAt(response.page.rows, SourceRow(response.page.rows, key),
                            ColumnOf(response.page.rows, result.quarters[k]), key)

----------------------------------------------------------------------------
(* Properties of get_multiple_stocks, checked under SpecBatch *)

\* C5: between the requests made for two consecutive symbols the 5-second
\* sleep always elapses, whatever the outcome of the earlier symbol.
C5_DelayBetweenSymbols ==
    \A i \in 2..Len(calls) : calls[i].at >= calls[i - 1].at + SleepSeconds

\* C6: get_earnings is attempted for every symbol in list order whatever the
\* earlier outcomes; the loop is never stuck or aborted and a non-empty batch
\* ends with a success response; every symbol that failed is a key of errors,
\* every symbol that succeeded is a key of results.
C6_BatchNeverAborts ==
    /\ Len(calls) <= Len(symbols)
    /\ \A i \in 1..Len(calls) :
          /\ calls[i].symbol = symbols[i]
          /\ (calls[i].outcome = "return" => calls[i].symbol \in DOMAIN results)
          /\ (calls[i].outcome # "return" => calls[i].symbol \in DOMAIN errors)
          /\ calls[i].symbol \in DOMAIN results \cup DOMAIN errors
    /\ (bPc = "loop" => symIdx = Len(calls) + 1)
    /\ (bPc = "loop" => ENABLED (ProcessSymbol \/ BatchRespond))
    /\ (bPc = "responded" /\ symbols # <<>> =>
            /\ batchResponse.success
            /\ Len(calls) = Len(symbols)
            /\ batchResponse.results = results
            /\ batchResponse.errors = errors)

\* a batch of three symbols answered after the first symbol raised, the second
\* returned None or an error report and the third succeeded
C6_Witness ==
    /\ bPc = "responded"
    /\ Len(calls) = 3
    /\ calls[1].outcome = "raise"
    /\ calls[2].outcome \in {"none", "error"}
    /\ calls[3].outcome = "return"
    /\ batchResponse.success
    /\ calls[1].symbol \in DOMAIN batchResponse.errors
    /\ calls[3].symbol \in DOMAIN batchResponse.results

----------------------------------------------------------------------------
(* Properties of find_nse_symbol and the load, checked under SpecResolver *)

InCall == rPc \in {"exact", "exact_get", "known", "fuzzy"}

\* C7: however the load of the index and the calls of find_nse_symbol
\* interleave, a call never raises and can always take its next step; a call
\* that ends while the load has not populated the index (in flight or failed)
\* returns None; every content of the index a call reads is the empty index or
\* the whole mapping of the dataset, the same at every read of the call, and
\* the value returned is the one the function gives on that content.
C7_ResolveSeesWholeIndex ==
    /\ rPc # "raised"
    /\ InCall => ENABLED ResolveStep
    /\ (rPc = "returned" /\ loadPc # "done") => rRet = None
    /\ \A seen \in rSeen : seen = <<>> \/ seen = MappingOf(dataset)
    /\ Cardinality(rSeen) <= 1
    /\ rPc = "returned" => \A seen \in rSeen : rRet = find_nse_symbol(rName, seen)

\* a call that iterated over the populated index and found a symbol
C7_Witness ==
    /\ rPc = "returned"
    /\ loadPc = "done"
    /\ rIter # None
    /\ rIter.pos > 0
    /\ rRet # None
    /\ rSeen = {MappingOf(dataset)}

OverrideCase ==
    /\ rPc = "returned"
    /\ Lower(rName) \in KnownKeys
    /\ \A seen \in rSeen : ~HasKey(seen, Lower(rName))

\* C8: a name whose lower-cased form is a key of the override table and not
\* of the index resolves to the table's value, without the fuzzy loop,
\* whatever the index holds, the empty index included.
C8_OverrideBeforeFuzzy ==
    OverrideCase => (rRet = known_mappings[Lower(rName)] /\ rIter = None)

\* C8, amended: the same when the index the call reads is not empty; on the
\* empty index the call returns None whatever the override table says.
C8_OverrideOnLoadedIndex ==
    OverrideCase =>
        IF <<>> \in rSeen
        THEN rRet = None
        ELSE rRet = known_mappings[Lower(rName)] /\ rIter = None

\* the override table says "not listed" for a name the fuzzy loop would resolve
C8_Witness ==
    /\ OverrideCase
    /\ <<>> \notin rSeen
    /\ rRet = None
    /\ FuzzyScan(Lower(rName), nse_mapping, 1) # None

\* the words of a name longer than 3 characters
LongWords(name) == SelectSeq(Split(name), LAMBDA w : Len(w) > 3)

\* how many of the words contain, or are contained in, a long word of the entry
Overlap(words, entry) ==
    Cardinality({i \in 1..Len(words) :
        \E j \in 1..Len(LongWords(entry)) :
            Contains(LongWords(entry)[j], words[i]) \/ Contains(words[i], LongWords(entry)[j])})

\* the entry reaches the ratio 0.6
Reaches(words, entry) == 10 * Overlap(words, entry) >= 6 * Len(words)

\* the positions of the index whose entry reaches the ratio
Candidates(words, index) == {i \in 1..Len(index) : Reaches(words, index[i][1])}

FirstOf(S) == CHOOSE i \in S : \A j \in S : i <= j

FuzzyCase == rPc = "returned" /\ rIter # None

\* C11: the fuzzy loop runs only when the exact match and the override table
\* both miss; a name without a significant word resolves to None; otherwise the
\* call returns the symbol of the first entry of the index, in iteration order,
\* that reaches the ratio 0.6, whether or not a later entry scores higher, and
\* None when no entry reaches it.
C11_FirstOverThreshold ==
    FuzzyCase =>
        /\ ~HasKey(nse_mapping, Lower(rName))
        /\ Lower(rName) \notin KnownKeys
        /\ rRet = IF LongWords(Lower(rName)) = <<>>
                     \/ Candidates(LongWords(Lower(rName)), nse_mapping) = {}
                  THEN None
                  ELSE nse_mapping[FirstOf(Candidates(LongWords(Lower(rName)), nse_mapping))][2]

\* the entry returned is over the threshold and a later entry scores higher
C11_Witness ==
    /\ FuzzyCase
    /\ rRet # None
    /\ \E i \in Candidates(LongWords(Lower(rName)), nse_mapping) :
          /\ i > rIter.pos + 1
          /\ Overlap(LongWords(Lower(rName)), nse_mapping[i][1])
                > Overlap(LongWords(Lower(rName)), nse_mapping[rIter.pos + 1][1])
          /\ rRet = nse_mapping[rIter.pos + 1][2]
          /\ rRet # nse_mapping[i][2]

----------------------------------------------------------------------------
(* Properties of get_upcoming_results, checked under SpecCalendar *)

\* C9: a line of fewer than 3 parts gives no fields; otherwise the code is
\* part 0, the date the last 3 parts joined by spaces, and the company name the
\* parts strictly between part 0 and the last 3 joined by spaces (part 1 alone
\* when there are 4 parts), no part of the company name being also a part of
\* the date or the code.
C9_LineFields ==
    lastParse # None =>
        LET parts == lastParse.parts
            n == Len(parts)
        IN  IF n < 3 THEN ~lastParse.parsed
            ELSE /\ lastParse.parsed
                 /\ lastParse.security_code = parts[1]
                 /\ lastParse.result_date = Join(SubSeq(parts, n - 2, n))
                 /\ lastParse.company_name =
                        IF n = 4 THEN parts[2] ELSE Join(SubSeq(parts, 2, n - 3))
                 /\ CompanyIdx(n) \cap (DateIdx(n) \cup {1}) = {}

----------------------------------------------------------------------------
(* Properties of calc_pct and the derived series, checked under SpecDerived *)

\* out is what the percentage change from prev to current should be: "N/A"
\* exactly when one of them is None or prev is 0, and otherwise an integer
\* nearest to (current - prev) / |prev| * 100
IsPctChange(current, prev, out) ==
    IF current = None \/ prev = None
    THEN out = NA
    ELSE IF prev.v = 0
    THEN out = NA
    ELSE /\ out # NA
         /\ 2 * Abs(out.v * Abs(prev.v) - 100 * (current.v - prev.v)) <= Abs(prev.v)

\* C12: calc_pct gives "N/A" exactly when current or prev is None or prev is 0
\* and otherwise the percentage change rounded to the nearest integer, so that
\* calc_pct(110, 100) = 10 and calc_pct(90, 100) = -10; QoQ[i] is
\* calc_pct(sales[i], sales[i-1]) for every i >= 1 and YoY[i] is
\* calc_pct(sales[i], sales[i-4]) for every i >= 4 (indices from 0).
C12_PctChange ==
    /\ calc_pct(PyInt(110), PyInt(100)) = PyInt(10)
    /\ calc_pct(PyInt(90), PyInt(100)) = PyInt(0 - 10)
    /\ dPc = "done" =>
          /\ \A i \in (DOMAIN dSales \cup DOMAIN dQoQ) \ {1} :
                /\ i \in DOMAIN dSales \cap DOMAIN dQoQ
                /\ IsPctChange(dSales[i], dSales[i - 1], dQoQ[i])
                /\ dQoQ[i] = calc_pct(dSales[i], dSales[i - 1])
          /\ \A i \in (DOMAIN dSales \cup DOMAIN dYoY) \ (1..YoYLag) :
                /\ i \in DOMAIN dSales \cap DOMAIN dYoY
                /\ IsPctChange(dSales[i], dSales[i - YoYLag], dYoY[i])
                /\ dYoY[i] = calc_pct(dSales[i], dSales[i - YoYLag])

=============================================================================
